---- MODULE Spec2Model ----
(***************************************************************************)
(* WebDAV backup / restore core of prompt-optimizer.                       *)
(*                                                                         *)
(*   BackupService  (packages/core/src/services/backup/backup.ts)          *)
(*   WebDAVService  (packages/core/src/services/webdav/webdav.ts)          *)
(*   error classes  (services/backup/errors.ts, services/webdav/errors.ts) *)
(*                                                                         *)
(* Strings are sequences of tokens (a template literal is a concatenation  *)
(* of its fixed parts and its interpolated parts), paths are sequences of  *)
(* segments and "/" separators, JavaScript values are tagged tuples and a  *)
(* thrown value is a record.  Every await of the source is one action: the *)
(* action settles the awaited call with an outcome chosen by the           *)
(* environment and runs the synchronous code up to the next await.         *)
(***************************************************************************)
EXTENDS Integers, Sequences, FiniteSets, TLC

(***************************************************************************)
(* Bounds of the model.                                                    *)
(***************************************************************************)
\* Number of backupToWebDAV / restoreFromWebDAV invocations in one behaviour.
MaxCalls == 2

(***************************************************************************)
(* Strings.                                                                *)
(***************************************************************************)
\* String.prototype.includes on token sequences.
Contains(s, sub) ==
    \E i \in 1..(Len(s) - Len(sub) + 1) : SubSeq(s, i, i + Len(sub) - 1) = sub

\* String.prototype.lastIndexOf(ch), zero based, -1 when absent.
LastIndexOf(s, ch) ==
    IF \E i \in 1..Len(s) : s[i] = ch
    THEN (CHOOSE i \in 1..Len(s) : s[i] = ch /\ \A j \in (i+1)..Len(s) : s[j] # ch) - 1
    ELSE -1

\* String.prototype.substring(0, end): a negative end counts as 0.
Substring0(s, end) == IF end <= 0 THEN <<>> ELSE SubSeq(s, 1, end)

\* String.prototype.endsWith(ch).
EndsWith(s, ch) == Len(s) > 0 /\ s[Len(s)] = ch

(***************************************************************************)
(* JavaScript values held by the data provider, and JSON.                  *)
(* A value is a tagged tuple; an object is <<"object", members>> with      *)
(* members a sequence of <<key, value>>; <<"cyclic">> is an object that    *)
(* refers to itself.                                                       *)
(***************************************************************************)
JNull == <<"null">>
JUndefined == <<"undefined">>
JNaN == <<"NaN">>
JCyclic == <<"cyclic">>
JNum(n) == <<"number", n>>
JStr(s) == <<"string", s>>
JObj(members) == <<"object", members>>

EmptyObj == JObj(<<>>)

\* The string and number literals of the model, with their JSON tokens.
StrLits == {"value", "key", "a"}
NumLits == {"1"}
Quote(s) == "\"" \o s \o "\""
IsStrTok(t) == \E s \in StrLits : Quote(s) = t
UnQuote(t) == CHOOSE s \in StrLits : Quote(s) = t

\* JSON.stringify(v): [ok, text]; ok = FALSE models the TypeError thrown for
\* a cyclic structure.  NaN becomes null, a member whose value is undefined
\* is dropped.
RECURSIVE Stringify(_)
RECURSIVE StringifyMembers(_, _)
StringifyMembers(ms, first) ==
    IF ms = <<>> THEN [ok |-> TRUE, text |-> <<>>]
    ELSE LET key == Head(ms)[1]
             val == Head(ms)[2]
         IN IF val = JUndefined
            THEN StringifyMembers(Tail(ms), first)
            ELSE LET v == Stringify(val)
                     rest == StringifyMembers(Tail(ms), FALSE)
                 IN IF ~v.ok \/ ~rest.ok
                    THEN [ok |-> FALSE, text |-> <<>>]
                    ELSE [ok |-> TRUE,
                          text |-> (IF first THEN <<>> ELSE <<",">>)
                                   \o <<Quote(key), ":">> \o v.text \o rest.text]
Stringify(v) ==
    CASE v[1] = "null" -> [ok |-> TRUE, text |-> <<"null">>]
      [] v[1] = "NaN" -> [ok |-> TRUE, text |-> <<"null">>]
      [] v[1] = "number" -> [ok |-> TRUE, text |-> <<v[2]>>]
      [] v[1] = "string" -> [ok |-> TRUE, text |-> <<Quote(v[2])>>]
      [] v[1] = "cyclic" -> [ok |-> FALSE, text |-> <<>>]
      [] v[1] = "object" ->
            LET m == StringifyMembers(v[2], TRUE)
            IN IF m.ok THEN [ok |-> TRUE, text |-> <<"{">> \o m.text \o <<"}">>]
               ELSE [ok |-> FALSE, text |-> <<>>]

\* JSON.parse(text) by recursive descent: [ok, val, rest]; ok = FALSE models
\* the SyntaxError.
RECURSIVE ParseValue(_)
RECURSIVE ParseMembers(_, _)
ParseFail == [ok |-> FALSE, val |-> JUndefined, rest |-> <<>>]
ParseMembers(toks, acc) ==
    IF Len(toks) < 3 \/ ~IsStrTok(toks[1]) \/ toks[2] # ":" THEN ParseFail
    ELSE LET v == ParseValue(SubSeq(toks, 3, Len(toks)))
         IN IF ~v.ok \/ v.rest = <<>> THEN ParseFail
            ELSE LET acc2 == Append(acc, <<UnQuote(toks[1]), v.val>>)
                 IN IF Head(v.rest) = "}"
                    THEN [ok |-> TRUE, val |-> JObj(acc2), rest |-> Tail(v.rest)]
                    ELSE IF Head(v.rest) = ","
                         THEN ParseMembers(Tail(v.rest), acc2)
                         ELSE ParseFail
ParseValue(toks) ==
    IF toks = <<>> THEN ParseFail
    ELSE LET t == Head(toks)
         IN CASE t = "null" -> [ok |-> TRUE, val |-> JNull, rest |-> Tail(toks)]
              [] t \in NumLits -> [ok |-> TRUE, val |-> JNum(t), rest |-> Tail(toks)]
              [] IsStrTok(t) -> [ok |-> TRUE, val |-> JStr(UnQuote(t)), rest |-> Tail(toks)]
              [] t = "{" ->
                    IF Len(toks) >= 2 /\ toks[2] = "}"
                    THEN [ok |-> TRUE, val |-> EmptyObj, rest |-> SubSeq(toks, 3, Len(toks))]
                    ELSE ParseMembers(Tail(toks), <<>>)
              [] OTHER -> ParseFail
Parse(text) ==
    LET r == ParseValue(text)
    IN IF r.ok /\ r.rest = <<>> THEN [ok |-> TRUE, val |-> r.val]
       ELSE [ok |-> FALSE, val |-> JUndefined]

(***************************************************************************)
(* Thrown values.  An error is a record [name, message, msgKind, status,   *)
(* originalError]; msgKind tells whether the message property is a string, *)
(* another truthy value, or undefined.  Nothing is the value undefined.    *)
(***************************************************************************)
Nothing == [name |-> "undefined"]

Err(name, message, orig) ==
    [name |-> name, message |-> message, msgKind |-> "string", status |-> 0,
     originalError |-> orig]

\* A value thrown by a collaborator (client library, data provider).
RawError(message, msgKind, status) ==
    [name |-> "Error", message |-> message, msgKind |-> msgKind, status |-> status,
     originalError |-> Nothing]

\* The TypeError the runtime throws for a property read of undefined, or for
\* a call of a method the value does not have.
TypeError(message) == Err("TypeError", message, Nothing)

\* The ReferenceError the runtime throws when a name that is not in scope is
\* evaluated.
ReferenceError(message) == Err("ReferenceError", message, Nothing)

\* `${error.message}` in a template literal.
MessageText(e) == IF e.msgKind = "undefined" THEN <<"undefined">> ELSE e.message

\* error.message || fallback, and originalError?.message || fallback.
MessageOr(e, fallback) ==
    IF e = Nothing \/ e.msgKind = "undefined" \/ e.message = <<>> THEN fallback
    ELSE e.message

(***************************************************************************)
(* services/webdav/errors.ts                                               *)
(***************************************************************************)
WebDAVErrorNames ==
    {"WebDAVError", "WebDAVConnectionError", "WebDAVAuthenticationError",
     "WebDAVFileNotFoundError", "WebDAVDirectoryNotFoundError", "WebDAVFileError",
     "WebDAVUploadError", "WebDAVDownloadError", "WebDAVInsufficientStorageError",
     "WebDAVForbiddenError", "WebDAVInvalidPathError", "WebDAVRateLimitError",
     "WebDAVNetworkError"}

\* error instanceof WebDAVError
IsWebDAVError(e) == e.name \in WebDAVErrorNames

WebDAVConnectionError(serverUrl, orig) ==
    Err("WebDAVConnectionError",
        <<"Failed to connect to WebDAV server at ">> \o serverUrl
          \o <<". Please check the URL and network connection.">>, orig)

WebDAVAuthenticationError(orig) ==
    Err("WebDAVAuthenticationError",
        <<"Authentication failed. Please check your WebDAV username and password.">>, orig)

WebDAVFileNotFoundError(filePath, orig) ==
    Err("WebDAVFileNotFoundError", <<"File not found at WebDAV path: ">> \o filePath, orig)

WebDAVDirectoryNotFoundError(directoryPath, orig) ==
    Err("WebDAVDirectoryNotFoundError",
        <<"Directory not found at WebDAV path: ">> \o directoryPath, orig)

WebDAVFileErrorMessage(filePath, operation, message) ==
    <<"Failed to ", operation, " file/directory '">> \o filePath \o <<"': ">> \o message

WebDAVFileError(filePath, operation, message, orig) ==
    Err("WebDAVFileError", WebDAVFileErrorMessage(filePath, operation, message), orig)

WebDAVUploadError(filePath, orig) ==
    Err("WebDAVUploadError",
        WebDAVFileErrorMessage(filePath, "write",
                               MessageOr(orig, <<"Upload operation failed">>)), orig)

WebDAVDownloadError(filePath, orig) ==
    Err("WebDAVDownloadError",
        WebDAVFileErrorMessage(filePath, "read",
                               MessageOr(orig, <<"Download operation failed">>)), orig)

WebDAVInsufficientStorageError(orig) ==
    Err("WebDAVInsufficientStorageError", <<"Insufficient storage on the WebDAV server.">>, orig)

WebDAVForbiddenError(filePath, operation, orig) ==
    Err("WebDAVForbiddenError",
        <<"Access forbidden to ", operation, " '">> \o filePath
          \o <<"'. Please check permissions.">>, orig)

WebDAVInvalidPathError(filePath, message, orig) ==
    Err("WebDAVInvalidPathError",
        <<"Invalid WebDAV path: '">> \o filePath \o <<"'. ">> \o message, orig)

WebDAVRateLimitError(orig) ==
    Err("WebDAVRateLimitError",
        <<"Too many requests to the WebDAV server. Please try again later.">>, orig)

WebDAVNetworkError(message, orig) == Err("WebDAVNetworkError", message, orig)

(***************************************************************************)
(* services/backup/errors.ts                                               *)
(***************************************************************************)
BackupError(message, orig) == Err("BackupError", message, orig)

RestoreError(message, orig) == Err("RestoreError", message, orig)

WebDAVSettingsMissingError ==
    Err("WebDAVSettingsMissingError",
        <<"WebDAV settings are missing or incomplete. Please configure them before proceeding.">>,
        Nothing)

StorageProviderMessage(operation, orig) ==
    MessageOr(orig, <<"Storage provider operation ", operation, " failed.">>)

BackupStorageProviderError(providerName, operation, orig) ==
    Err("BackupStorageProviderError",
        <<"Backup failed due to storage provider '", providerName, "' error during ",
          operation, ": ">> \o StorageProviderMessage(operation, orig), orig)

RestoreStorageProviderError(providerName, operation, orig) ==
    Err("RestoreStorageProviderError",
        <<"Restore failed due to storage provider '", providerName, "' error during ",
          operation, ": ">> \o StorageProviderMessage(operation, orig), orig)

\* The class hierarchy of errors.ts: error instanceof BackupError / RestoreError.
IsBackupError(e) ==
    e.name \in {"BackupError", "BackupConfigurationError", "WebDAVSettingsMissingError",
                "BackupStorageProviderError"}
IsRestoreError(e) ==
    e.name \in {"RestoreError", "RestoreConfigurationError", "RestoreStorageProviderError"}

(***************************************************************************)
(* WebDAVService.handleError                                               *)
(***************************************************************************)
\* String.prototype.toLowerCase on the message tokens of the model.
ToLower(s) ==
    [i \in 1..Len(s) |-> IF s[i] = "Network request failed"
                         THEN "network request failed" ELSE s[i]]

NetworkSignatures == {"ENOTFOUND", "ECONNREFUSED", "ETIMEDOUT", "EHOSTUNREACH"}

\* Variant: the default branch does not look at the operation.
ClassifyDefault_AlwaysFileError(error, filePath, operation, errorMessage) ==
    WebDAVFileError(filePath, operation, errorMessage, error)

\* The default branch of handleError's switch (webdav.ts 76-84).
ClassifyDefault(error, filePath, operation, errorMessage) ==
    IF operation = "write" THEN WebDAVUploadError(filePath, error)
    ELSE IF operation = "read" THEN WebDAVDownloadError(filePath, error)
    ELSE WebDAVFileError(filePath, operation, errorMessage, error)

\* handleError from its switch on the status code onwards (webdav.ts 56-85);
\* errorMessage is error.message or the placeholder.  Case 429 evaluates the
\* name WebDAVRateLimitError, which webdav.ts does not import, so it throws
\* a ReferenceError.
ClassifyByStatus(error, filePath, operation, errorMessage) ==
    LET status == error.status
    IN CASE status \in {401, 407} -> WebDAVAuthenticationError(error)
         [] status = 403 -> WebDAVForbiddenError(filePath, operation, error)
         [] status = 404 ->
              IF operation = "create directory" \/ operation = "list directory"
                 \/ (operation = "stat" /\ EndsWith(filePath, "/"))
              THEN WebDAVDirectoryNotFoundError(filePath, error)
              ELSE WebDAVFileNotFoundError(filePath, error)
         [] status = 400 -> WebDAVInvalidPathError(filePath, errorMessage, error)
         [] status = 409 ->
              WebDAVFileError(filePath, operation, <<"Conflict: ">> \o errorMessage, error)
         [] status = 507 -> WebDAVInsufficientStorageError(error)
         [] status = 429 -> ReferenceError(<<"WebDAVRateLimitError is not defined">>)
         [] OTHER -> ClassifyDefault(error, filePath, operation, errorMessage)

\* Variant: a status code, when there is one, is consulted before the
\* message.
HandleError_StatusFirst(error, filePath, operation, remoteURL) ==
    IF error = Nothing
    THEN TypeError(<<"Cannot read properties of undefined (reading 'response')">>)
    ELSE LET errorMessage == MessageOr(error, <<"An unknown WebDAV error occurred.">>)
         IN IF IsWebDAVError(error) THEN error
            ELSE IF error.msgKind = "other"
            THEN TypeError(<<"errorMessage.includes is not a function">>)
            ELSE IF error.status # 0
            THEN ClassifyByStatus(error, filePath, operation, errorMessage)
            ELSE IF \E sig \in NetworkSignatures : Contains(errorMessage, <<sig>>)
            THEN WebDAVConnectionError(remoteURL, error)
            ELSE IF Contains(ToLower(errorMessage), <<"network request failed">>)
            THEN WebDAVNetworkError(errorMessage, error)
            ELSE ClassifyByStatus(error, filePath, operation, errorMessage)

\* Variant: the message is searched for network signatures before the test
\* for an error of the taxonomy.
HandleError_SignatureFirst(error, filePath, operation, remoteURL) ==
    IF error = Nothing
    THEN TypeError(<<"Cannot read properties of undefined (reading 'response')">>)
    ELSE LET errorMessage == MessageOr(error, <<"An unknown WebDAV error occurred.">>)
         IN IF error.msgKind = "other"
            THEN TypeError(<<"errorMessage.includes is not a function">>)
            ELSE IF \E sig \in NetworkSignatures : Contains(errorMessage, <<sig>>)
            THEN WebDAVConnectionError(remoteURL, error)
            ELSE IF Contains(ToLower(errorMessage), <<"network request failed">>)
            THEN WebDAVNetworkError(errorMessage, error)
            ELSE IF IsWebDAVError(error) THEN error
            ELSE ClassifyByStatus(error, filePath, operation, errorMessage)

\* The value handleError returns; a TypeError stands for handleError itself
\* throwing (reading a property of undefined, or calling includes on a
\* message that is not a string), and so does the ReferenceError of case 429.
HandleError(error, filePath, operation, remoteURL) ==
    IF error = Nothing
    THEN TypeError(<<"Cannot read properties of undefined (reading 'response')">>)
    ELSE LET errorMessage == MessageOr(error, <<"An unknown WebDAV error occurred.">>)
         IN IF IsWebDAVError(error) THEN error
            ELSE IF error.msgKind = "other"
            THEN TypeError(<<"errorMessage.includes is not a function">>)
            ELSE IF \E sig \in NetworkSignatures : Contains(errorMessage, <<sig>>)
            THEN WebDAVConnectionError(remoteURL, error)
            ELSE IF Contains(ToLower(errorMessage), <<"network request failed">>)
            THEN WebDAVNetworkError(errorMessage, error)
            ELSE ClassifyByStatus(error, filePath, operation, errorMessage)

(***************************************************************************)
(* Inputs: settings, snapshots, remote files, failures of collaborators.   *)
(***************************************************************************)
ServerUrl == <<"https://test-server.com/dav">>
DefaultFileName == <<"prompt_optimizer_backup.json">>
ProviderName == "MockStorage"

\* remotePath values a caller configures; <<>> is an omitted or empty one.
RemotePaths ==
    {<<>>, <<"backup.json">>, <<"backups", "/", "backup.json">>, <<"/", "backup.json">>}

\* The webDAVSettings argument; NoSettings is null / undefined.
NoSettings == [present |-> FALSE, serverUrl |-> <<>>, remotePath |-> <<>>]
SettingsSet ==
    {NoSettings} \cup
    {[present |-> TRUE, serverUrl |-> u, remotePath |-> p] :
        u \in {<<>>, ServerUrl}, p \in RemotePaths}

\* Values exportAll can return (the content of the local store).
Snapshots ==
    {EmptyObj,
     JObj(<< <<"key", JStr("value")>> >>),
     JObj(<< <<"key", JNum("1")>> >>),
     JObj(<< <<"key", JUndefined>> >>),
     JObj(<< <<"key", JNaN>> >>),
     JObj(<< <<"a", JObj(<< <<"key", JStr("value")>> >>)>>, <<"key", JNull>> >>),
     JCyclic}

\* The files of the remote server: path -> [exists, text].
FilePaths == (RemotePaths \ {<<>>}) \cup {DefaultFileName}
NoFile == [exists |-> FALSE, text |-> <<>>]
File(text) == [exists |-> TRUE, text |-> text]
InitialFiles ==
    {NoFile,
     File(<<"invalid json">>),
     File(<<"{", Quote("key"), ":">>),
     File(<<"{", Quote("key"), ":", Quote("value"), "}">>)}

\* Values the WebDAV client library throws.
ClientErrors ==
    {Nothing}
    \cup {RawError(<<"Request failed">>, "string", st) : st \in {0, 401, 404}}
    \cup {RawError(<<"getaddrinfo ", "ENOTFOUND", " test-server.com">>, "string", st) :
            st \in {0, 404}}
    \cup {RawError(<<"Network request failed">>, "string", 0)}
    \cup {RawError(<<>>, "undefined", 0)}
    \cup {RawError(<<"42">>, "other", 0)}

\* Values the data provider's operations reject with.
ProviderErrors ==
    {RawError(<<"Storage failed">>, "string", 0), RawError(<<>>, "undefined", 0), Nothing}

\* Values createClient of the client library throws.
CreateClientErrors == {RawError(<<"Invalid character">>, "string", 0)}

\* No backup has written the file.
NoUpload == [by |-> FALSE, snapshot |-> JUndefined]

(***************************************************************************)
(* Inputs of the pure functions: handleError and the constructor of        *)
(* BackupService.                                                          *)
(***************************************************************************)
\* The operation tags of handleError's third parameter.
Operations == {"read", "write", "delete", "stat", "create directory", "list directory"}

\* Paths handed to handleError: a file, a path that ends in a separator, and
\* a parent directory as uploadFile derives it (no trailing separator).
ProbePaths == {<<"backups", "/", "backup.json">>, <<"backups", "/">>, <<"backups">>}

\* HTTP status codes of a failed request; 0 stands for no status at all.
StatusCodes == {0, 400, 401, 403, 404, 407, 409, 429, 500, 507}

\* Messages of the errors the client library throws.
PlainMessage == <<"Request failed">>
SignatureMessages ==
    {<<"getaddrinfo ", sig, " test-server.com">> : sig \in NetworkSignatures}
NetworkFailedMessage == <<"Network request failed">>

\* Raw errors: every message crossed with every status, an error without a
\* message, one whose message is not a string, and a thrown undefined.
RawErrors ==
    {RawError(m, "string", st) :
        m \in {PlainMessage, NetworkFailedMessage} \cup SignatureMessages,
        st \in StatusCodes}
    \cup {RawError(<<>>, "undefined", st) : st \in StatusCodes}
    \cup {RawError(<<"42">>, "other", st) : st \in {0, 404}}
    \cup {Nothing}

\* Errors of the taxonomy as they reach handleError a second time; some
\* carry a status of their own or a message with a network signature.
TaxonomyErrors ==
    {WebDAVAuthenticationError(RawError(PlainMessage, "string", 401)),
     WebDAVFileNotFoundError(<<"backups">>, RawError(PlainMessage, "string", 404)),
     WebDAVConnectionError(ServerUrl, RawError(PlainMessage, "string", 0)),
     WebDAVNetworkError(NetworkFailedMessage, Nothing),
     [WebDAVUploadError(<<"backups">>, Nothing) EXCEPT !.status = 404],
     [WebDAVDownloadError(<<"backups">>, Nothing) EXCEPT !.status = 401],
     WebDAVFileError(<<"backups">>, "stat",
                     <<"connect ", "ECONNREFUSED", " 127.0.0.1:80">>, Nothing)}

\* Storage providers handed to the constructor: which of the members are
\* functions, and the providerName ("" when the provider has none).
ProviderMethods == SUBSET {"exportAll", "importAll", "clearAll", "getItem"}
ProviderNames == {ProviderName, ""}

\* Arguments of new WebDAVService(options): a client handle (an object with
\* a getStat member) or client options; remoteURL is <<>> when the object
\* has none.
NoOptions == [hasGetStat |-> FALSE, remoteURL |-> <<>>]
ServiceOptions ==
    {[hasGetStat |-> g, remoteURL |-> u] :
        g \in BOOLEAN, u \in {<<>>, ServerUrl, <<"https://mock-server.com/dav/">>}}

\* The operations of WebDAVService that make one call of the client.
SingleCallOperations ==
    {"downloadFile", "pathExists", "createDirectoryRecursive", "deleteFile"}

\* What a call of the client does: it resolves, or rejects with a value.
Resolved == [ok |-> TRUE, err |-> Nothing]
Rejected(e) == [ok |-> FALSE, err |-> e]
ClientOutcomes == {Resolved} \cup {Rejected(e) : e \in RawErrors}

NoProbe ==
    [fn |-> "none", error |-> Nothing, filePath |-> <<>>, operation |-> "",
     methods |-> {}, providerName |-> "", options |-> NoOptions]
HandleErrorProbes ==
    {[NoProbe EXCEPT !.fn = "handleError", !.error = e, !.filePath = p, !.operation = o] :
        e \in RawErrors \cup TaxonomyErrors, p \in ProbePaths, o \in Operations}
ConstructorProbes ==
    {[NoProbe EXCEPT !.fn = "constructor", !.methods = m, !.providerName = n] :
        m \in ProviderMethods, n \in ProviderNames}
ServiceProbes ==
    {[NoProbe EXCEPT !.fn = f, !.filePath = p] :
        f \in SingleCallOperations, p \in ProbePaths}
ServiceConstructorProbes ==
    {[NoProbe EXCEPT !.fn = "WebDAVService", !.options = o] : o \in ServiceOptions}

\* The invocations that run concurrently, and one that has not started.
Invocations == {"a", "b", "c"}
NotStarted ==
    [op |-> "none", pc |-> "idle", jsonData |-> <<>>, data |-> JUndefined,
     outcome |-> [kind |-> "none", value |-> Nothing],
     sawCleared |-> FALSE, importedOver |-> JUndefined]

\* What the examined call produced: threw tells whether it threw value,
\* result is what it returned, client what the client call did, created the
\* arguments of the createClient calls it made.
NoAnswer ==
    [done |-> FALSE, threw |-> FALSE, value |-> Nothing, result |-> "none",
     client |-> Resolved, created |-> <<>>]
Thrown(e, client) == [NoAnswer EXCEPT !.done = TRUE, !.threw = TRUE, !.value = e,
                                      !.client = client]
Returns(result, client) == [NoAnswer EXCEPT !.done = TRUE, !.result = result,
                                            !.client = client]

(***************************************************************************)
(* State.                                                                  *)
(***************************************************************************)
VARIABLES
    store,      \* content of the data provider's store (a JavaScript value)
    remote,     \* files of the remote server: FilePaths -> [exists, text]
    op,         \* "none", "backup" or "restore": the invocation in progress
    pc,         \* "idle", "done", or the call the invocation awaits
    settings,   \* webDAVSettings of the invocation
    jsonData,   \* local jsonData of backupToWebDAV / restoreFromWebDAV
    data,       \* local data of restoreFromWebDAV (the parsed payload)
    outcome,    \* [kind, value]: pending, returned result or thrown error
    log,        \* history: collaborator calls of the invocation, in order
    store0,     \* history: the store when the invocation started
    calls,      \* number of invocations started
    uploaded,   \* history: per remote file, the snapshot a backup last wrote
    probe,      \* the call of a pure function under examination
    answer,     \* what that call produced
    webdavServiceInstance,  \* field of BackupService: the transport handed
                            \* to its constructor, "none" when there was none
    procs       \* invocations that run concurrently: each one's position

\* State of the two components of the data management view and of the
\* storage they share.
VARIABLES
    storageProvider,    \* "none" (null) or "ready": the components' provider
    storedSettings,     \* the item stored under 'webdav_settings'
    formSettings,       \* WebDAVSettings.vue: settings (serverUrl, remotePath)
    validationErrors,   \* WebDAVSettings.vue: validationErrors
    isSaving,           \* WebDAVSettings.vue: isSaving
    feedbackMessage,    \* WebDAVSettings.vue: feedbackMessage
    feedbackIsError,    \* WebDAVSettings.vue: feedbackIsError
    settingsPc,         \* WebDAVSettings.vue: the call the component awaits
    setItemArg,         \* WebDAVSettings.vue: argument of the pending setItem
    lastSave,           \* history: the most recent call of saveSettings
    mountPc,            \* WebDAVActions.vue: position of onMounted
    backupService,      \* WebDAVActions.vue: "none" (null) or "ready"
    backupState,        \* WebDAVActions.vue: backupState
    restoreState,       \* WebDAVActions.vue: restoreState
    actionFeedback,     \* WebDAVActions.vue: actionFeedback
    showRestoreConfirmation,    \* WebDAVActions.vue: showRestoreConfirmation
    timers,             \* pending setTimeout callbacks of the components
    confirmedSinceOpen, \* history: confirm was clicked since the dialog opened
    lastSettled         \* history: the service call that settled in the last
                        \* step, and the feedback its handler set

viewVars ==
    <<storageProvider, storedSettings, formSettings, validationErrors, isSaving,
      feedbackMessage, feedbackIsError, settingsPc, setItemArg, lastSave, mountPc,
      backupService, backupState, restoreState, actionFeedback,
      showRestoreConfirmation, timers, confirmedSinceOpen, lastSettled>>

vars ==
    <<store, remote, op, pc, settings, jsonData, data, outcome, log, store0, calls,
      uploaded, probe, answer, webdavServiceInstance, procs, viewVars>>

\* The components as their script setup leaves them, before onMounted has
\* run (WebDAVSettings.vue 83-105, WebDAVActions.vue 96-113).
EmptyForm == [serverUrl |-> <<>>, remotePath |-> <<>>]
NoSave == [done |-> FALSE, form |-> EmptyForm, setItem |-> FALSE,
           message |-> <<>>, isError |-> FALSE]
NoSettled == [fn |-> "none", outcome |-> [kind |-> "none", value |-> Nothing],
              message |-> <<>>, isError |-> FALSE]
ViewsUnmounted ==
    /\ storageProvider = "none"
    /\ storedSettings = NoSettings
    /\ formSettings = EmptyForm
    /\ validationErrors = EmptyForm
    /\ isSaving = FALSE
    /\ feedbackMessage = <<>>
    /\ feedbackIsError = FALSE
    /\ settingsPc = "createDefault"
    /\ setItemArg = EmptyForm
    /\ lastSave = NoSave
    /\ mountPc = "createDefault"
    /\ backupService = "none"
    /\ backupState = [inProgress |-> FALSE, statusText |-> "Backup to WebDAV"]
    /\ restoreState = [inProgress |-> FALSE, statusText |-> "Restore from WebDAV"]
    /\ actionFeedback = [message |-> <<>>, isError |-> FALSE]
    /\ showRestoreConfirmation = FALSE
    /\ timers = {}
    /\ confirmedSinceOpen = FALSE
    /\ lastSettled = NoSettled

\* History entries.
Call(fn, arg) == [ev |-> "call", fn |-> fn, arg |-> arg]
Ok(fn) == [ev |-> "ok", fn |-> fn, arg |-> Nothing]
OkWith(fn, val) == [ev |-> "ok", fn |-> fn, arg |-> val]
Fail(fn, e) == [ev |-> "fail", fn |-> fn, arg |-> e]

\* Where a piece of code leaves the invocation: awaiting a call, thrown, or
\* returned; entries are the history entries it adds.
Await(fn, entries) ==
    [pc |-> fn, kind |-> "pending", value |-> Nothing, entries |-> entries]
Throw(e, entries) ==
    [pc |-> "done", kind |-> "threw", value |-> e, entries |-> entries]
Return(message, entries) ==
    [pc |-> "done", kind |-> "returned",
     value |-> [success |-> TRUE, message |-> message], entries |-> entries]

Goto(r) ==
    /\ pc' = r.pc
    /\ outcome' = [kind |-> r.kind, value |-> r.value]
    /\ log' = log \o r.entries

(***************************************************************************)
(* WebDAVService.uploadFile / downloadFile                                 *)
(***************************************************************************)
\* Variant: a path directly under the root has the root as its parent.
ParentDir_KeepsRoot(filePath) ==
    IF LastIndexOf(filePath, "/") = 0 THEN <<"/">>
    ELSE Substring0(filePath, LastIndexOf(filePath, "/"))

\* filePath.substring(0, filePath.lastIndexOf('/'))
ParentDir(filePath) == Substring0(filePath, LastIndexOf(filePath, "/"))

\* uploadFile up to its first await: the stat of the parent directory, or
\* the write when the path has no parent segment.
UploadFileBegin(filePath, text, entries) ==
    LET parentDir == ParentDir(filePath)
        called == Append(entries, Call("uploadFile", <<filePath, text>>))
    IN IF parentDir # <<>>
       THEN Await("getStat", Append(called, Call("getStat", parentDir)))
       ELSE Await("putFileContents",
                  Append(called, Call("putFileContents", <<filePath, text>>)))

\* The call of putFileContents that follows the directory-ensure step.
UploadFileWrite(filePath, text, entries) ==
    Await("putFileContents", Append(entries, Call("putFileContents", <<filePath, text>>)))

\* Variant: the caller is told false for every failure of the stat.
PathExists_FalseOnAnyFailure(filePath, res) ==
    IF res.ok THEN Returns("true", res) ELSE Returns("false", res)

\* pathExists(filePath), given what getStat did.  A handleError that throws
\* throws out of the catch block.
PathExists(filePath, res) ==
    LET handledError == HandleError(res.err, filePath, "stat", ServerUrl)
    IN IF res.ok THEN Returns("true", res)
       ELSE IF ~IsWebDAVError(handledError) THEN Thrown(handledError, res)
       ELSE IF handledError.name \in {"WebDAVFileNotFoundError",
                                       "WebDAVDirectoryNotFoundError"}
       THEN Returns("false", res)
       ELSE Thrown(handledError, res)

\* downloadFile, createDirectoryRecursive, deleteFile, given what the
\* client's getFileContents, createDirectory, deleteFile did.
DownloadFile(filePath, res) ==
    IF res.ok THEN Returns("text", res)
    ELSE Thrown(HandleError(res.err, filePath, "read", ServerUrl), res)
CreateDirectoryRecursive(dirPath, res) ==
    IF res.ok THEN Returns("void", res)
    ELSE Thrown(HandleError(res.err, dirPath, "create directory", ServerUrl), res)
DeleteFile(filePath, res) ==
    IF res.ok THEN Returns("void", res)
    ELSE Thrown(HandleError(res.err, filePath, "delete", ServerUrl), res)

\* Variant: a client is created whenever the argument has a remoteURL.
WebDAVServiceConstructor_CreatesFromUrl(options) ==
    IF options.remoteURL # <<>>
    THEN [err |-> Nothing, client |-> "created", remoteURL |-> options.remoteURL,
          created |-> <<options.remoteURL>>]
    ELSE [err |-> Nothing, client |-> "given", remoteURL |-> <<"Unknown WebDAV Server">>,
          created |-> <<>>]

\* new WebDAVService(options): the error thrown (Nothing when none), the
\* client the service holds ("given": the argument itself, "created": the
\* one createClient returned), its remoteURL, and the arguments of the
\* createClient calls made.
WebDAVServiceConstructor(options) ==
    IF options.hasGetStat
    THEN [err |-> Nothing, client |-> "given",
          remoteURL |-> IF options.remoteURL = <<>> THEN <<"Unknown WebDAV Server">>
                        ELSE options.remoteURL,
          created |-> <<>>]
    ELSE IF options.remoteURL = <<>>
    THEN [err |-> WebDAVInvalidPathError(
                      <<>>, <<"Remote URL is not provided in WebDAVClientOptions.">>,
                      Nothing),
          client |-> "none", remoteURL |-> <<>>, created |-> <<>>]
    ELSE [err |-> Nothing, client |-> "created", remoteURL |-> options.remoteURL,
          created |-> <<options.remoteURL>>]

(***************************************************************************)
(* BackupService                                                           *)
(***************************************************************************)
\* new BackupConfigurationError(message)
BackupConfigurationError(message) == Err("BackupConfigurationError", message, Nothing)

\* `StorageProvider '${providerName || 'Unknown'}' must implement ...`
MustImplement(providerName, method, tail) ==
    BackupConfigurationError(
        <<"StorageProvider '", IF providerName = "" THEN "Unknown" ELSE providerName,
          "' must implement ", method, tail>>)

\* Variant: clearAll is looked for first.
BackupServiceConstructor_ClearAllFirst(methods, providerName) ==
    IF "clearAll" \notin methods
    THEN MustImplement(providerName, "clearAll", " method for restore functionality.")
    ELSE IF "exportAll" \notin methods
    THEN MustImplement(providerName, "exportAll", " method.")
    ELSE IF "importAll" \notin methods
    THEN MustImplement(providerName, "importAll", " method.")
    ELSE Nothing

\* new BackupService(storageProvider): the error the constructor throws,
\* Nothing when it accepts the provider.  methods are the members of the
\* provider that are functions; providerName is "" when it has none.
BackupServiceConstructor(methods, providerName) ==
    IF "exportAll" \notin methods
    THEN MustImplement(providerName, "exportAll", " method.")
    ELSE IF "importAll" \notin methods
    THEN MustImplement(providerName, "importAll", " method.")
    ELSE IF "clearAll" \notin methods
    THEN MustImplement(providerName, "clearAll", " method for restore functionality.")
    ELSE Nothing

\* Variant: the check on serverUrl is left out.
SettingsMissing_IgnoresUrl(s) == ~s.present

\* !webDAVSettings || !webDAVSettings.serverUrl
SettingsMissing(s) == ~s.present \/ s.serverUrl = <<>>

\* Variant: a leading separator of the configured path is dropped.
ResolveRemotePath_DropsLeadingSeparator(s) ==
    IF s.remotePath = <<>> THEN DefaultFileName
    ELSE IF Head(s.remotePath) = "/" THEN Tail(s.remotePath)
    ELSE s.remotePath

\* webDAVSettings.remotePath || 'prompt_optimizer_backup.json'
ResolveRemotePath(s) == IF s.remotePath = <<>> THEN DefaultFileName ELSE s.remotePath

\* this.remoteURL of the WebDAVService that getWebDAVService builds: the
\* constructor is given the client createClient returned, which carries no
\* remoteURL property, so it falls back to the placeholder.
ServiceRemoteURL == <<"Unknown WebDAV Server">>

\* Variant: a transport handed to the constructor is used as it is.
GetWebDAVService_ReusesInstance(s, cc) ==
    IF ~s.present \/ s.serverUrl = <<>>
    THEN [ok |-> FALSE,
          err |-> Err("WebDAVSettingsMissingError",
                      <<"WebDAV server URL is not configured.">>, Nothing),
          entries |-> <<>>]
    ELSE IF webdavServiceInstance = "injected"
    THEN [ok |-> TRUE, err |-> Nothing, entries |-> <<>>]
    ELSE IF cc # Nothing
    THEN [ok |-> FALSE, err |-> cc,
          entries |-> <<Call("createClient", s.serverUrl), Fail("createClient", cc)>>]
    ELSE [ok |-> TRUE, err |-> Nothing,
          entries |-> <<Call("createClient", s.serverUrl), Ok("createClient")>>]

\* getWebDAVService(settings); cc is what createClient throws, Nothing when
\* it returns a client.  [ok, err, entries].
GetWebDAVService(s, cc) ==
    IF SettingsMissing(s)
    THEN [ok |-> FALSE,
          err |-> Err("WebDAVSettingsMissingError",
                      <<"WebDAV server URL is not configured.">>, Nothing),
          entries |-> <<>>]
    ELSE IF cc # Nothing
    THEN [ok |-> FALSE, err |-> cc,
          entries |-> <<Call("createClient", s.serverUrl), Fail("createClient", cc)>>]
    ELSE [ok |-> TRUE, err |-> Nothing,
          entries |-> <<Call("createClient", s.serverUrl), Ok("createClient")>>]

\* Variant: the provider's error is not passed on.
ExportFailure_DropsCause(e) == BackupStorageProviderError(ProviderName, "exportAll", Nothing)

\* backupToWebDAV: the error thrown when exportAll rejects with e.
ExportFailure(e) == BackupStorageProviderError(ProviderName, "exportAll", e)

\* Variant: the serialization failure is reported as a provider failure.
SerializeFailure_AsProviderError(e) ==
    BackupStorageProviderError(ProviderName, "exportAll", e)

\* backupToWebDAV: the error thrown when JSON.stringify throws e.
SerializeFailure(e) ==
    BackupError(<<"Failed to serialize data for backup: ">> \o MessageText(e), e)

\* Variant: the taxonomy error is unwrapped and only its cause kept.
UploadFailure_UnwrapsCause(error) ==
    BackupError(<<"WebDAV operation failed during backup: ">> \o MessageText(error),
                error.originalError)

\* backupToWebDAV: the error that leaves the catch around uploadFile.  The
\* catch reads error.message, which throws for a thrown undefined.
UploadFailure(error) ==
    IF error = Nothing
    THEN TypeError(<<"Cannot read properties of undefined (reading 'message')">>)
    ELSE IF IsWebDAVError(error)
    THEN BackupError(<<"WebDAV operation failed during backup: ">> \o MessageText(error),
                     error)
    ELSE BackupError(<<"An unexpected error occurred during WebDAV backup: ">>
                       \o MessageText(error), error)

\* Variant: the transport error is not kept as originalError.
DownloadFailure_DropsCause(error) ==
    RestoreError(<<"WebDAV operation failed during restore: ">> \o MessageText(error),
                 Nothing)

\* restoreFromWebDAV: the error that leaves the catch around downloadFile.
DownloadFailure(error) ==
    IF error = Nothing
    THEN TypeError(<<"Cannot read properties of undefined (reading 'message')">>)
    ELSE IF IsWebDAVError(error)
    THEN RestoreError(<<"WebDAV operation failed during restore: ">> \o MessageText(error),
                      error)
    ELSE RestoreError(<<"An unexpected error occurred during WebDAV download: ">>
                        \o MessageText(error), error)

\* Variant: the message does not mention corruption.
ParseFailure_NoCorruptionHint(e) ==
    RestoreError(<<"Failed to parse backup data: ">> \o MessageText(e), e)

\* restoreFromWebDAV: the error thrown when JSON.parse throws e.
ParseFailure(e) ==
    RestoreError(<<"Failed to parse backup data: ">> \o MessageText(e)
                   \o <<". The backup file might be corrupted.">>, e)

\* restoreFromWebDAV: the errors thrown when clearAll / importAll reject.
ClearAllFailure(e) == RestoreStorageProviderError(ProviderName, "clearAll", e)
ImportAllFailure(e) == RestoreStorageProviderError(ProviderName, "importAll", e)

\* Variant: the message shows the configured path, not the resolved one.
BackupMessage_ConfiguredPath(s) ==
    <<"Backup successful to ">> \o s.serverUrl \o <<"/">> \o s.remotePath

\* The messages of the results returned on success.
BackupMessage(s) ==
    <<"Backup successful to ">> \o s.serverUrl \o <<"/">> \o ResolveRemotePath(s)
RestoreMessage(s) ==
    <<"Restore successful from ">> \o s.serverUrl \o <<"/">> \o ResolveRemotePath(s)

\* Variant: the failure is reported in the result, not thrown.
UploadThrows_ReturnsFailure(err, entries) ==
    [pc |-> "done", kind |-> "returned",
     value |-> [success |-> FALSE, message |-> MessageText(UploadFailure(err))],
     entries |-> Append(entries, Fail("uploadFile", err))]

\* uploadFile rejects with err inside backupToWebDAV's try.
UploadThrows(err, entries) ==
    Throw(UploadFailure(err), Append(entries, Fail("uploadFile", err)))

\* Variant: the store is cleared before it is exported.
BackupBegin_ClearsFirst(s) ==
    IF SettingsMissing(s) THEN Throw(WebDAVSettingsMissingError, <<>>)
    ELSE Await("exportAll", <<Call("clearAll", Nothing), Ok("clearAll"),
                              Call("exportAll", Nothing)>>)

\* backupToWebDAV up to the await of exportAll.
BackupBegin(s) ==
    IF SettingsMissing(s) THEN Throw(WebDAVSettingsMissingError, <<>>)
    ELSE Await("exportAll", <<Call("exportAll", Nothing)>>)

\* backupToWebDAV after exportAll resolved with exported: serialize, build the
\* transport, start the upload.
BackupAfterExport(s, exported, cc) ==
    LET j == Stringify(exported)
        svc == GetWebDAVService(s, cc)
        done == <<Ok("exportAll"), Call("JSON.stringify", exported)>>
    IN IF ~j.ok
       THEN Throw(SerializeFailure(TypeError(<<"Converting circular structure to JSON">>)),
                  Append(done, Fail("JSON.stringify", Nothing)))
       ELSE IF ~svc.ok
       THEN Throw(svc.err, Append(done, Ok("JSON.stringify")) \o svc.entries)
       ELSE UploadFileBegin(ResolveRemotePath(s), j.text,
                            Append(done, Ok("JSON.stringify")) \o svc.entries)

\* Variant: a stat failure other than not-found ends the upload.
UploadAfterStat_FailsOnOtherErrors(filePath, text, res) ==
    LET parentDir == ParentDir(filePath)
        handledStatError == HandleError(res.err, parentDir, "stat", ServiceRemoteURL)
    IN IF res.ok
       THEN UploadFileWrite(filePath, text, <<OkWith("getStat", [type |-> res.type])>>)
       ELSE IF handledStatError.name \in {"WebDAVFileNotFoundError",
                                           "WebDAVDirectoryNotFoundError"}
       THEN Await("createDirectory",
                  <<Fail("getStat", res.err), Call("createDirectory", parentDir)>>)
       ELSE UploadThrows(handledStatError, <<Fail("getStat", res.err)>>)

\* uploadFile after the stat of the parent directory settled.  res is
\* [ok, type, err].  The throw for a parent that is not a directory happens
\* inside the try, so the catch below it handles that error too.
UploadAfterStat(filePath, text, res) ==
    LET parentDir == ParentDir(filePath)
        statError ==
            IF res.ok
            THEN HandleError(RawError(<<"Path ">> \o parentDir
                                        \o <<" exists but is not a directory.">>,
                                      "string", 0),
                             parentDir, "create directory", ServiceRemoteURL)
            ELSE res.err
        handledStatError == HandleError(statError, parentDir, "stat", ServiceRemoteURL)
        settled == IF res.ok THEN <<OkWith("getStat", [type |-> res.type])>>
                   ELSE <<Fail("getStat", res.err)>>
    IN IF res.ok /\ res.type = "directory"
       THEN UploadFileWrite(filePath, text, settled)
       ELSE IF ~IsWebDAVError(handledStatError)
       THEN UploadThrows(handledStatError, settled)
       ELSE IF handledStatError.name \in {"WebDAVFileNotFoundError",
                                           "WebDAVDirectoryNotFoundError"}
       THEN Await("createDirectory", Append(settled, Call("createDirectory", parentDir)))
       ELSE UploadFileWrite(filePath, text, settled)

\* Variant: the write is attempted whatever createDirectory did.
UploadAfterCreateDirectory_WritesAnyway(filePath, text, ok, e) ==
    UploadFileWrite(filePath, text,
                    <<IF ok THEN Ok("createDirectory") ELSE Fail("createDirectory", e)>>)

\* uploadFile after createDirectory settled; e is Nothing on success.
UploadAfterCreateDirectory(filePath, text, ok, e) ==
    IF ok THEN UploadFileWrite(filePath, text, <<Ok("createDirectory")>>)
    ELSE UploadThrows(HandleError(e, ParentDir(filePath), "create directory",
                                  ServiceRemoteURL),
                      <<Fail("createDirectory", e)>>)

\* Variant: a failed write is tried again.
BackupAfterWrite_RetriesWrite(s, ok, e) ==
    IF ok THEN Return(BackupMessage(s), <<Ok("putFileContents"), Ok("uploadFile")>>)
    ELSE Await("putFileContents",
               <<Fail("putFileContents", e),
                 Call("putFileContents", <<ResolveRemotePath(s), <<>>>>)>>)

\* uploadFile and backupToWebDAV after putFileContents settled.
BackupAfterWrite(s, ok, e) ==
    IF ok THEN Return(BackupMessage(s), <<Ok("putFileContents"), Ok("uploadFile")>>)
    ELSE UploadThrows(HandleError(e, ResolveRemotePath(s), "write", ServiceRemoteURL),
                      <<Fail("putFileContents", e)>>)

\* restoreFromWebDAV up to the await inside downloadFile.
RestoreBegin(s, cc) ==
    LET svc == GetWebDAVService(s, cc)
        remotePath == ResolveRemotePath(s)
    IN IF SettingsMissing(s) THEN Throw(WebDAVSettingsMissingError, <<>>)
       ELSE IF ~svc.ok THEN Throw(svc.err, svc.entries)
       ELSE Await("getFileContents",
                  svc.entries \o <<Call("downloadFile", remotePath),
                                   Call("getFileContents", remotePath)>>)

\* restoreFromWebDAV after getFileContents rejected with e.
RestoreAfterDownloadFailed(s, e) ==
    LET err == HandleError(e, ResolveRemotePath(s), "read", ServiceRemoteURL)
    IN Throw(DownloadFailure(err),
             <<Fail("getFileContents", e), Fail("downloadFile", err)>>)

\* Variant: the store is cleared before the text is parsed.
RestoreAfterDownload_ClearBeforeParse(text) ==
    Await("clearAll",
          <<Ok("getFileContents"), Ok("downloadFile"), Call("clearAll", Nothing)>>)

\* restoreFromWebDAV after the download resolved with text: parse, then
\* start clearing.
RestoreAfterDownload(text) ==
    LET p == Parse(text)
        done == <<Ok("getFileContents"), Ok("downloadFile"), Call("JSON.parse", text)>>
    IN IF ~p.ok
       THEN Throw(ParseFailure(Err("SyntaxError", <<"Unexpected token">>, Nothing)),
                  Append(done, Fail("JSON.parse", Nothing)))
       ELSE Await("clearAll", done \o <<Ok("JSON.parse"), Call("clearAll", Nothing)>>)

\* Variant: a failure of clearAll is ignored and the import goes ahead.
RestoreAfterClear_ImportsAnyway(parsed, ok, e) ==
    Await("importAll",
          <<IF ok THEN Ok("clearAll") ELSE Fail("clearAll", e), Call("importAll", parsed)>>)

\* restoreFromWebDAV after clearAll settled.
RestoreAfterClear(parsed, ok, e) ==
    IF ok THEN Await("importAll", <<Ok("clearAll"), Call("importAll", parsed)>>)
    ELSE Throw(ClearAllFailure(e), <<Fail("clearAll", e)>>)

\* Variant: after importAll the restore waits for a lock that nothing
\* releases.
RestoreAfterImport_AwaitsUnlock(s, ok, e) ==
    IF ok THEN Await("unlock", <<Ok("importAll")>>)
    ELSE Throw(ImportAllFailure(e), <<Fail("importAll", e)>>)

\* Variant: a failed importAll is tried again.
RestoreAfterImport_Retries(s, ok, e) ==
    IF ok THEN Return(<<"Restore successful">>, <<Ok("importAll")>>)
    ELSE Await("importAll", <<Fail("importAll", e), Call("importAll", Nothing)>>)

\* restoreFromWebDAV after importAll settled.
RestoreAfterImport(s, ok, e) ==
    IF ok THEN Return(RestoreMessage(s), <<Ok("importAll")>>)
    ELSE Throw(ImportAllFailure(e), <<Fail("importAll", e)>>)

(***************************************************************************)
(* The collaborators: the data provider's bulk operations on the store and *)
(* the remote server behind the client library.  A failed operation leaves *)
(* the store / the server as it was.                                       *)
(***************************************************************************)
ProviderExportAll(st) == st
ProviderClearAll(st) == EmptyObj
ProviderImportAll(st, d) == d

\* Variant: a file that exists is not overwritten.
ServerPut_KeepsExisting(files, filePath, text) ==
    IF files[filePath].exists THEN files ELSE [files EXCEPT ![filePath] = File(text)]

\* putFileContents(filePath, data, {overwrite: true}) on the server's files.
ServerPut(files, filePath, text) == [files EXCEPT ![filePath] = File(text)]

CreateClientOutcomes == {Nothing} \cup CreateClientErrors

(***************************************************************************)
(* Actions.                                                                *)
(***************************************************************************)
Init ==
    /\ store \in Snapshots
    /\ \E f \in InitialFiles : remote = [p \in FilePaths |-> f]
    /\ op = "none"
    /\ pc = "idle"
    /\ settings = NoSettings
    /\ jsonData = <<>>
    /\ data = JUndefined
    /\ outcome = [kind |-> "none", value |-> Nothing]
    /\ log = <<>>
    /\ store0 = store
    /\ calls = 0
    /\ uploaded = [p \in FilePaths |-> NoUpload]
    /\ probe = NoProbe
    /\ answer = NoAnswer
    /\ webdavServiceInstance \in {"none", "injected"}
    /\ procs = [p \in Invocations |-> NotStarted]
    /\ ViewsUnmounted

\* A caller may start an invocation when none is in progress.
CanStart == pc \in {"idle", "done"} /\ calls < MaxCalls

Start(o, s) ==
    /\ op' = o
    /\ settings' = s
    /\ calls' = calls + 1
    /\ jsonData' = <<>>
    /\ data' = JUndefined
    /\ store0' = store

\* backupToWebDAV(s) is called.
BackupToWebDAV(s) ==
    /\ CanStart
    /\ Start("backup", s)
    /\ LET r == BackupBegin(s)
       IN /\ pc' = r.pc
          /\ outcome' = [kind |-> r.kind, value |-> r.value]
          /\ log' = r.entries
    /\ UNCHANGED <<store, remote, uploaded, probe, answer, webdavServiceInstance, procs, viewVars>>

\* exportAll settles.
ExportAllSettles ==
    /\ op = "backup" /\ pc = "exportAll"
    /\ \/ \E e \in ProviderErrors :
            /\ Goto(Throw(ExportFailure(e), <<Fail("exportAll", e)>>))
            /\ UNCHANGED jsonData
       \/ \E cc \in CreateClientOutcomes :
            LET exported == ProviderExportAll(store)
                j == Stringify(exported)
            IN /\ Goto(BackupAfterExport(settings, exported, cc))
               /\ jsonData' = IF j.ok THEN j.text ELSE jsonData
    /\ UNCHANGED <<store, remote, op, settings, data, store0, calls>>
    /\ UNCHANGED <<uploaded, probe, answer, webdavServiceInstance, procs, viewVars>>

\* getStat(parentDir) of uploadFile settles.
GetStatSettles ==
    /\ op = "backup" /\ pc = "getStat"
    /\ \E res \in {[ok |-> TRUE, type |-> t, err |-> Nothing] : t \in {"directory", "file"}}
                  \cup {[ok |-> FALSE, type |-> "none", err |-> e] : e \in ClientErrors} :
          Goto(UploadAfterStat(ResolveRemotePath(settings), jsonData, res))
    /\ UNCHANGED <<store, remote, op, settings, jsonData, data, store0, calls>>
    /\ UNCHANGED <<uploaded, probe, answer, webdavServiceInstance, procs, viewVars>>

\* createDirectory(parentDir, {recursive: true}) of uploadFile settles.
CreateDirectorySettles ==
    /\ op = "backup" /\ pc = "createDirectory"
    /\ \/ Goto(UploadAfterCreateDirectory(ResolveRemotePath(settings), jsonData,
                                          TRUE, Nothing))
       \/ \E e \in ClientErrors :
            Goto(UploadAfterCreateDirectory(ResolveRemotePath(settings), jsonData,
                                            FALSE, e))
    /\ UNCHANGED <<store, remote, op, settings, jsonData, data, store0, calls>>
    /\ UNCHANGED <<uploaded, probe, answer, webdavServiceInstance, procs, viewVars>>

\* putFileContents(filePath, data, {overwrite: true}) of uploadFile settles.
PutFileContentsSettles ==
    /\ op = "backup" /\ pc = "putFileContents"
    /\ \/ /\ Goto(BackupAfterWrite(settings, TRUE, Nothing))
          /\ remote' = ServerPut(remote, ResolveRemotePath(settings), jsonData)
          /\ uploaded' = [uploaded EXCEPT ![ResolveRemotePath(settings)] =
                                             [by |-> TRUE, snapshot |-> ProviderExportAll(store)]]
       \/ \E e \in ClientErrors :
            /\ Goto(BackupAfterWrite(settings, FALSE, e))
            /\ UNCHANGED <<remote, uploaded>>
    /\ UNCHANGED <<store, op, settings, jsonData, data, store0, calls>>
    /\ UNCHANGED <<probe, answer, webdavServiceInstance, procs, viewVars>>

\* restoreFromWebDAV(s) is called.
RestoreFromWebDAV(s) ==
    /\ CanStart
    /\ Start("restore", s)
    /\ \E cc \in CreateClientOutcomes :
          LET r == RestoreBegin(s, cc)
          IN /\ pc' = r.pc
             /\ outcome' = [kind |-> r.kind, value |-> r.value]
             /\ log' = r.entries
    /\ UNCHANGED <<store, remote, uploaded, probe, answer, webdavServiceInstance, procs, viewVars>>

\* getFileContents(filePath, {format: 'text'}) of downloadFile settles.
GetFileContentsSettles ==
    /\ op = "restore" /\ pc = "getFileContents"
    /\ \/ /\ remote[ResolveRemotePath(settings)].exists
          /\ LET text == remote[ResolveRemotePath(settings)].text
                 p == Parse(text)
             IN /\ Goto(RestoreAfterDownload(text))
                /\ jsonData' = text
                /\ data' = IF p.ok THEN p.val ELSE data
       \/ \E e \in ClientErrors :
            /\ Goto(RestoreAfterDownloadFailed(settings, e))
            /\ UNCHANGED <<jsonData, data>>
    /\ UNCHANGED <<store, remote, op, settings, store0, calls>>
    /\ UNCHANGED <<uploaded, probe, answer, webdavServiceInstance, procs, viewVars>>

\* clearAll settles.
ClearAllSettles ==
    /\ op = "restore" /\ pc = "clearAll"
    /\ \/ /\ Goto(RestoreAfterClear(data, TRUE, Nothing))
          /\ store' = ProviderClearAll(store)
       \/ \E e \in ProviderErrors :
            /\ Goto(RestoreAfterClear(data, FALSE, e))
            /\ UNCHANGED store
    /\ UNCHANGED <<remote, op, settings, jsonData, data, store0, calls>>
    /\ UNCHANGED <<uploaded, probe, answer, webdavServiceInstance, procs, viewVars>>

\* importAll(data) settles.
ImportAllSettles ==
    /\ op = "restore" /\ pc = "importAll"
    /\ \/ /\ Goto(RestoreAfterImport(settings, TRUE, Nothing))
          /\ store' = ProviderImportAll(store, data)
       \/ \E e \in ProviderErrors :
            /\ Goto(RestoreAfterImport(settings, FALSE, e))
            /\ UNCHANGED store
    /\ UNCHANGED <<remote, op, settings, jsonData, data, store0, calls>>
    /\ UNCHANGED <<uploaded, probe, answer, webdavServiceInstance, procs, viewVars>>

Next ==
    \/ \E s \in SettingsSet : BackupToWebDAV(s)
    \/ ExportAllSettles
    \/ GetStatSettles
    \/ CreateDirectorySettles
    \/ PutFileContentsSettles
    \/ \E s \in SettingsSet : RestoreFromWebDAV(s)
    \/ GetFileContentsSettles
    \/ ClearAllSettles
    \/ ImportAllSettles

Spec == Init /\ [][Next]_vars

\* Every call of the data provider and of the client library eventually
\* settles: it returns or fails.
CallsSettle ==
    /\ WF_vars(ExportAllSettles)
    /\ WF_vars(GetStatSettles)
    /\ WF_vars(CreateDirectorySettles)
    /\ WF_vars(PutFileContentsSettles)
    /\ WF_vars(GetFileContentsSettles)
    /\ WF_vars(ClearAllSettles)
    /\ WF_vars(ImportAllSettles)

\* The invocations of Spec with a store that serializes or one that does
\* not, and no transport handed to the constructor.
InitLive ==
    /\ Init
    /\ store \in {JObj(<< <<"key", JStr("value")>> >>), JCyclic}
    /\ webdavServiceInstance = "none"

SpecLive == InitLive /\ [][Next]_vars /\ CallsSettle

(***************************************************************************)
(* The functions and the single-call operations on their own: one call of  *)
(* handleError, of a constructor, or of an operation of WebDAVService per  *)
(* behaviour, on an input drawn at the start.  The service is one built    *)
(* for ServerUrl.                                                          *)
(***************************************************************************)
InitPure ==
    /\ store = EmptyObj
    /\ remote = [p \in FilePaths |-> NoFile]
    /\ op = "none"
    /\ pc = "idle"
    /\ settings = NoSettings
    /\ jsonData = <<>>
    /\ data = JUndefined
    /\ outcome = [kind |-> "none", value |-> Nothing]
    /\ log = <<>>
    /\ store0 = store
    /\ calls = 0
    /\ uploaded = [p \in FilePaths |-> NoUpload]
    /\ probe \in HandleErrorProbes \cup ConstructorProbes \cup ServiceProbes
                 \cup ServiceConstructorProbes
    /\ answer = NoAnswer
    /\ webdavServiceInstance = "none"
    /\ procs = [p \in Invocations |-> NotStarted]
    /\ ViewsUnmounted

\* The variables the examined calls leave alone.
coreVars ==
    <<store, remote, op, pc, settings, jsonData, data, outcome, log, store0, calls,
      uploaded, webdavServiceInstance, procs, viewVars>>

\* this.handleError(error, filePath, operation)
ClassifyError ==
    /\ probe.fn = "handleError" /\ ~answer.done
    /\ LET r == HandleError(probe.error, probe.filePath, probe.operation, ServerUrl)
       IN answer' = [NoAnswer EXCEPT !.done = TRUE, !.value = r,
                                     !.threw = r.name \in {"TypeError", "ReferenceError"},
                                     !.client = Rejected(probe.error)]
    /\ UNCHANGED <<coreVars, probe>>

\* new BackupService(storageProvider)
ConstructBackupService ==
    /\ probe.fn = "constructor" /\ ~answer.done
    /\ LET e == BackupServiceConstructor(probe.methods, probe.providerName)
       IN answer' = IF e = Nothing THEN Returns("BackupService", Resolved)
                    ELSE Thrown(e, Resolved)
    /\ UNCHANGED <<coreVars, probe>>

\* new WebDAVService(options)
ConstructWebDAVService ==
    /\ probe.fn = "WebDAVService" /\ ~answer.done
    /\ LET r == WebDAVServiceConstructor(probe.options)
       IN answer' = [(IF r.err = Nothing THEN Returns(r.client, Resolved)
                      ELSE Thrown(r.err, Resolved)) EXCEPT !.created = r.created]
    /\ UNCHANGED <<coreVars, probe>>

\* pathExists(filePath): getStat resolves or rejects.
PathExistsSettles ==
    /\ probe.fn = "pathExists" /\ ~answer.done
    /\ \E res \in ClientOutcomes : answer' = PathExists(probe.filePath, res)
    /\ UNCHANGED <<coreVars, probe>>

\* downloadFile(filePath): getFileContents resolves or rejects.
DownloadFileSettles ==
    /\ probe.fn = "downloadFile" /\ ~answer.done
    /\ \E res \in ClientOutcomes : answer' = DownloadFile(probe.filePath, res)
    /\ UNCHANGED <<coreVars, probe>>

\* createDirectoryRecursive(dirPath): createDirectory resolves or rejects.
CreateDirectoryRecursiveSettles ==
    /\ probe.fn = "createDirectoryRecursive" /\ ~answer.done
    /\ \E res \in ClientOutcomes : answer' = CreateDirectoryRecursive(probe.filePath, res)
    /\ UNCHANGED <<coreVars, probe>>

\* deleteFile(filePath): the client's deleteFile resolves or rejects.
DeleteFileSettles ==
    /\ probe.fn = "deleteFile" /\ ~answer.done
    /\ \E res \in ClientOutcomes : answer' = DeleteFile(probe.filePath, res)
    /\ UNCHANGED <<coreVars, probe>>

NextPure ==
    \/ ClassifyError
    \/ ConstructBackupService
    \/ ConstructWebDAVService
    \/ PathExistsSettles
    \/ DownloadFileSettles
    \/ CreateDirectoryRecursiveSettles
    \/ DeleteFileSettles

SpecPure == InitPure /\ [][NextPure]_vars

(***************************************************************************)
(* Concurrent invocations on one BackupService and one data provider: each *)
(* of them runs backupToWebDAV or restoreFromWebDAV once, with the same    *)
(* settings (default remote path), and their awaits interleave.            *)
(***************************************************************************)
ConcurrentSettings == [present |-> TRUE, serverUrl |-> ServerUrl, remotePath |-> <<>>]

\* What a collaborator rejects with in these runs.
ConcurrentFailure == RawError(<<"Request failed">>, "string", 0)

\* Variant: no step runs while another invocation is between its clearAll
\* and its importAll.
MayRun_NotDuringRestore(p) ==
    \A q \in Invocations \ {p} : ~(procs[q].op = "restore" /\ procs[q].pc = "importAll")

\* Whether a step of invocation p may run now.  Neither backupToWebDAV nor
\* restoreFromWebDAV acquires a lock or waits for another invocation, so a
\* step runs as soon as the call it awaits settles.
MayRun(p) == TRUE

\* The invocation record after a piece of code left it at r.
Advance(rec, r) ==
    [rec EXCEPT !.pc = r.pc, !.outcome = [kind |-> r.kind, value |-> r.value]]

\* The variables concurrent invocations leave alone.
soloVars ==
    <<op, pc, settings, jsonData, data, outcome, log, store0, calls, uploaded, probe,
      answer, webdavServiceInstance, viewVars>>

InitConcurrent ==
    /\ store \in {JObj(<< <<"key", JStr("value")>> >>), JObj(<< <<"key", JNum("1")>> >>)}
    /\ \E f \in {NoFile, File(<<"{", Quote("key"), ":", Quote("value"), "}">>)} :
          remote = [p \in FilePaths |-> IF p = DefaultFileName THEN f ELSE NoFile]
    /\ op = "none"
    /\ pc = "idle"
    /\ settings = NoSettings
    /\ jsonData = <<>>
    /\ data = JUndefined
    /\ outcome = [kind |-> "none", value |-> Nothing]
    /\ log = <<>>
    /\ store0 = store
    /\ calls = 0
    /\ uploaded = [p \in FilePaths |-> NoUpload]
    /\ probe = NoProbe
    /\ answer = NoAnswer
    /\ webdavServiceInstance = "none"
    /\ procs = [p \in Invocations |-> NotStarted]
    /\ ViewsUnmounted

\* Invocation p calls backupToWebDAV.
CBackupToWebDAV(p) ==
    /\ procs[p].pc = "idle" /\ MayRun(p)
    /\ procs' = [procs EXCEPT
                    ![p] = Advance([@ EXCEPT !.op = "backup"], BackupBegin(ConcurrentSettings))]
    /\ UNCHANGED <<store, remote, soloVars>>

\* exportAll of invocation p settles.
CExportAllSettles(p) ==
    /\ procs[p].op = "backup" /\ procs[p].pc = "exportAll" /\ MayRun(p)
    /\ \/ procs' = [procs EXCEPT
                       ![p] = Advance(@, Throw(ExportFailure(ConcurrentFailure), <<>>))]
       \/ LET exported == ProviderExportAll(store)
              j == Stringify(exported)
              cleared == \E q \in Invocations \ {p} :
                             procs[q].op = "restore" /\ procs[q].pc = "importAll"
          IN procs' = [procs EXCEPT
                         ![p] = Advance([@ EXCEPT !.jsonData = IF j.ok THEN j.text ELSE @,
                                                  !.sawCleared = cleared],
                                        BackupAfterExport(ConcurrentSettings, exported,
                                                          Nothing))]
    /\ UNCHANGED <<store, remote, soloVars>>

\* putFileContents of invocation p's uploadFile settles.
CPutFileContentsSettles(p) ==
    /\ procs[p].op = "backup" /\ procs[p].pc = "putFileContents" /\ MayRun(p)
    /\ \/ /\ procs' = [procs EXCEPT
                          ![p] = Advance(@, BackupAfterWrite(ConcurrentSettings, TRUE,
                                                             Nothing))]
          /\ remote' = ServerPut(remote, ResolveRemotePath(ConcurrentSettings),
                                 procs[p].jsonData)
       \/ /\ procs' = [procs EXCEPT
                          ![p] = Advance(@, BackupAfterWrite(ConcurrentSettings, FALSE,
                                                             ConcurrentFailure))]
          /\ UNCHANGED remote
    /\ UNCHANGED <<store, soloVars>>

\* Invocation p calls restoreFromWebDAV.
CRestoreFromWebDAV(p) ==
    /\ procs[p].pc = "idle" /\ MayRun(p)
    /\ procs' = [procs EXCEPT
                    ![p] = Advance([@ EXCEPT !.op = "restore"],
                                   RestoreBegin(ConcurrentSettings, Nothing))]
    /\ UNCHANGED <<store, remote, soloVars>>

\* getFileContents of invocation p's downloadFile settles.
CGetFileContentsSettles(p) ==
    /\ procs[p].op = "restore" /\ procs[p].pc = "getFileContents" /\ MayRun(p)
    /\ \/ /\ remote[ResolveRemotePath(ConcurrentSettings)].exists
          /\ LET text == remote[ResolveRemotePath(ConcurrentSettings)].text
                 parsed == Parse(text)
             IN procs' = [procs EXCEPT
                            ![p] = Advance([@ EXCEPT !.jsonData = text,
                                                     !.data = IF parsed.ok THEN parsed.val
                                                              ELSE @],
                                           RestoreAfterDownload(text))]
       \/ procs' = [procs EXCEPT
                       ![p] = Advance(@, RestoreAfterDownloadFailed(ConcurrentSettings,
                                                                    ConcurrentFailure))]
    /\ UNCHANGED <<store, remote, soloVars>>

\* clearAll of invocation p settles.
CClearAllSettles(p) ==
    /\ procs[p].op = "restore" /\ procs[p].pc = "clearAll" /\ MayRun(p)
    /\ \/ /\ procs' = [procs EXCEPT
                          ![p] = Advance(@, RestoreAfterClear(procs[p].data, TRUE, Nothing))]
          /\ store' = ProviderClearAll(store)
       \/ /\ procs' = [procs EXCEPT
                          ![p] = Advance(@, RestoreAfterClear(procs[p].data, FALSE,
                                                              ConcurrentFailure))]
          /\ UNCHANGED store
    /\ UNCHANGED <<remote, soloVars>>

\* importAll(data) of invocation p settles.
CImportAllSettles(p) ==
    /\ procs[p].op = "restore" /\ procs[p].pc = "importAll" /\ MayRun(p)
    /\ \/ /\ procs' = [procs EXCEPT
                          ![p] = Advance([@ EXCEPT !.importedOver = store],
                                         RestoreAfterImport(ConcurrentSettings, TRUE,
                                                            Nothing))]
          /\ store' = ProviderImportAll(store, procs[p].data)
       \/ /\ procs' = [procs EXCEPT
                          ![p] = Advance(@, RestoreAfterImport(ConcurrentSettings, FALSE,
                                                               ConcurrentFailure))]
          /\ UNCHANGED store
    /\ UNCHANGED <<remote, soloVars>>

NextConcurrent ==
    \E p \in Invocations :
        \/ CBackupToWebDAV(p)
        \/ CExportAllSettles(p)
        \/ CPutFileContentsSettles(p)
        \/ CRestoreFromWebDAV(p)
        \/ CGetFileContentsSettles(p)
        \/ CClearAllSettles(p)
        \/ CImportAllSettles(p)

SpecConcurrent == InitConcurrent /\ [][NextConcurrent]_vars

(***************************************************************************)
(* WebDAVSettings.vue: the form that stores the WebDAV settings.  The      *)
(* model keeps the two fields saveSettings validates, serverUrl and        *)
(* remotePath; a URL is a sequence of tokens (scheme, "//", host, path).   *)
(***************************************************************************)
\* Values a user types into the Server URL and Remote Backup Path fields.
ServerUrlInputs ==
    {<<>>,
     <<"example.com", "/dav">>,
     <<"https:", "//", "example.com", "/dav">>,
     <<"HTTPS:", "//", "example.com">>,
     <<" ", "http:", "//", "example.com">>,
     <<"https:", "//">>,
     <<"ftp:", "//", "invalid.com">>,
     <<"mailto:", "user@example.com">>}
RemotePathInputs ==
    {<<>>, <<"backups", "/", "backup.json">>, <<"/", "backup.json">>, <<"backups", "/">>}

\* The forms that are saved: every server URL with an empty remote path,
\* every remote path with a server URL that is accepted, and one form with
\* two faults.
Forms ==
    {[serverUrl |-> u, remotePath |-> <<>>] : u \in ServerUrlInputs}
    \cup {[serverUrl |-> <<"https:", "//", "example.com", "/dav">>, remotePath |-> p] :
            p \in RemotePathInputs}
    \cup {[serverUrl |-> <<"ftp:", "//", "invalid.com">>, remotePath |-> <<"/", "backup.json">>]}

\* What getItem('webdav_settings') finds when the components are mounted.
StoredItems ==
    {NoSettings,
     [present |-> TRUE, serverUrl |-> <<"https:", "//", "example.com", "/dav">>,
      remotePath |-> <<>>],
     [present |-> TRUE, serverUrl |-> <<>>, remotePath |-> <<"backup.json">>]}

\* What the storage provider and StorageFactory.createDefault reject with.
StorageErrors == {RawError(<<"Storage failed">>, "string", 0), RawError(<<>>, "undefined", 0)}

\* The URL parser strips leading and trailing spaces from its input.
StripSpaces(s) ==
    LET a == IF s # <<>> /\ s[1] = " " THEN Tail(s) ELSE s
    IN IF a # <<>> /\ a[Len(a)] = " " THEN SubSeq(a, 1, Len(a) - 1) ELSE a

\* The scheme a first token denotes, in lower case as url.protocol reports
\* it; "" when the token is no scheme.
SchemeOf(tok) ==
    CASE tok \in {"http:", "HTTP:"} -> "http:"
      [] tok \in {"https:", "HTTPS:"} -> "https:"
      [] tok = "ftp:" -> "ftp:"
      [] tok = "mailto:" -> "mailto:"
      [] OTHER -> ""

\* Schemes whose URLs must name a host.
SpecialSchemes == {"http:", "https:", "ftp:"}

\* new URL(input) without a base: ok is FALSE when the constructor throws
\* (no scheme, or a special scheme without a host).
ParseURL(input) ==
    LET s == StripSpaces(input)
        scheme == IF s = <<>> THEN "" ELSE SchemeOf(s[1])
        rest == IF Len(s) >= 2 /\ s[2] = "//" THEN SubSeq(s, 3, Len(s))
                ELSE SubSeq(s, 2, Len(s))
    IN IF scheme = "" THEN [ok |-> FALSE, protocol |-> ""]
       ELSE IF scheme \in SpecialSchemes /\ rest = <<>> THEN [ok |-> FALSE, protocol |-> ""]
       ELSE [ok |-> TRUE, protocol |-> scheme]

\* String.prototype.startsWith for a one-character prefix.
StartsWith(s, ch) == s # <<>> /\ s[1] = ch

\* validateSettings' check of the remote path.
RemotePathError(form) ==
    IF form.remotePath # <<>>
       /\ (StartsWith(form.remotePath, "/") \/ EndsWith(form.remotePath, "/"))
    THEN <<"Remote path should not start or end with a slash (e.g., \"backup/file.json\").">>
    ELSE <<>>

\* Variant: every URL that parses is accepted, whatever its scheme.
ValidateSettings_AnyScheme(form) ==
    LET url == ParseURL(form.serverUrl)
        serverUrlError ==
            IF form.serverUrl = <<>> THEN <<"Server URL is required.">>
            ELSE IF ~url.ok THEN <<"Invalid Server URL format.">>
            ELSE <<>>
    IN [isValid |-> serverUrlError = <<>> /\ RemotePathError(form) = <<>>,
        errors |-> [serverUrl |-> serverUrlError, remotePath |-> RemotePathError(form)]]

\* validateSettings(): the value it returns and the validationErrors it
\* leaves.
ValidateSettings(form) ==
    LET url == ParseURL(form.serverUrl)
        serverUrlError ==
            IF form.serverUrl = <<>> THEN <<"Server URL is required.">>
            ELSE IF ~url.ok THEN <<"Invalid Server URL format.">>
            ELSE IF url.protocol # "http:" /\ url.protocol # "https:"
            THEN <<"Server URL must start with http:// or https://">>
            ELSE <<>>
    IN [isValid |-> serverUrlError = <<>> /\ RemotePathError(form) = <<>>,
        errors |-> [serverUrl |-> serverUrlError, remotePath |-> RemotePathError(form)]]

\* A setTimeout callback that clears the feedback when it still shows one
\* of the given messages; superseded records that the feedback was set
\* again after the timer was started.
Timer(messages) == [clears |-> messages, superseded |-> FALSE]

LoadedMessages ==
    {<<"Settings loaded.">>,
     <<"No saved settings found. Please configure your WebDAV details.">>}

\* The variables of the other component and of the core.
settingsFrame ==
    <<store, remote, op, pc, settings, jsonData, data, outcome, log, store0, calls,
      uploaded, probe, answer, webdavServiceInstance, procs, mountPc, backupService,
      backupState, restoreState, actionFeedback, showRestoreConfirmation,
      confirmedSinceOpen, lastSettled>>

\* The state of the core while a component is examined.
CoreIdle ==
    /\ store = EmptyObj
    /\ remote = [p \in FilePaths |-> NoFile]
    /\ op = "none"
    /\ pc = "idle"
    /\ settings = NoSettings
    /\ jsonData = <<>>
    /\ data = JUndefined
    /\ outcome = [kind |-> "none", value |-> Nothing]
    /\ log = <<>>
    /\ store0 = store
    /\ calls = 0
    /\ uploaded = [p \in FilePaths |-> NoUpload]
    /\ probe = NoProbe
    /\ answer = NoAnswer
    /\ webdavServiceInstance = "none"
    /\ procs = [p \in Invocations |-> NotStarted]

InitSettings ==
    /\ CoreIdle
    /\ storageProvider = "none"
    /\ storedSettings \in StoredItems
    /\ formSettings = EmptyForm
    /\ validationErrors = EmptyForm
    /\ isSaving = FALSE
    /\ feedbackMessage = <<>>
    /\ feedbackIsError = FALSE
    /\ settingsPc = "createDefault"
    /\ setItemArg = EmptyForm
    /\ lastSave = NoSave
    /\ mountPc = "createDefault"
    /\ backupService = "none"
    /\ backupState = [inProgress |-> FALSE, statusText |-> "Backup to WebDAV"]
    /\ restoreState = [inProgress |-> FALSE, statusText |-> "Restore from WebDAV"]
    /\ actionFeedback = [message |-> <<>>, isError |-> FALSE]
    /\ showRestoreConfirmation = FALSE
    /\ timers = {}
    /\ confirmedSinceOpen = FALSE
    /\ lastSettled = NoSettled

\* onMounted: StorageFactory.createDefault() settles; when it resolves,
\* loadSettings runs up to its await of getItem.
SettingsCreateDefaultSettles ==
    /\ settingsPc = "createDefault"
    /\ \/ /\ storageProvider' = "ready"
          /\ isSaving' = TRUE
          /\ feedbackMessage' = <<"Loading settings...">>
          /\ feedbackIsError' = FALSE
          /\ settingsPc' = "getItem"
       \/ /\ feedbackMessage' = <<"Storage provider not available. Cannot load settings.">>
          /\ feedbackIsError' = TRUE
          /\ settingsPc' = "idle"
          /\ UNCHANGED <<storageProvider, isSaving>>
       \/ \E e \in StorageErrors :
          /\ feedbackMessage' =
                <<"Critical Error: Could not load storage provider. Settings cannot be loaded or saved. Details: ">>
                  \o MessageOr(e, <<"Error">>)
          /\ feedbackIsError' = TRUE
          /\ settingsPc' = "idle"
          /\ UNCHANGED <<storageProvider, isSaving>>
    /\ UNCHANGED <<storedSettings, formSettings, validationErrors, setItemArg, lastSave,
                   timers, settingsFrame>>

\* loadSettings: getItem settles.
SettingsGetItemSettles ==
    /\ settingsPc = "getItem"
    /\ \/ /\ formSettings' =
                IF storedSettings.present
                THEN [serverUrl |-> storedSettings.serverUrl,
                      remotePath |-> storedSettings.remotePath]
                ELSE formSettings
          /\ feedbackMessage' =
                IF storedSettings.present THEN <<"Settings loaded.">>
                ELSE <<"No saved settings found. Please configure your WebDAV details.">>
          /\ timers' = timers \cup {Timer(LoadedMessages)}
          /\ UNCHANGED feedbackIsError
       \/ \E e \in StorageErrors :
          /\ feedbackMessage' = <<"Error loading settings: ">>
                                  \o MessageOr(e, <<"Unknown error">>)
                                  \o <<". Please try again.">>
          /\ feedbackIsError' = TRUE
          /\ UNCHANGED <<formSettings, timers>>
    /\ isSaving' = FALSE
    /\ settingsPc' = "idle"
    /\ UNCHANGED <<storageProvider, storedSettings, validationErrors, setItemArg, lastSave,
                   settingsFrame>>

\* The user edits the fields of the form (v-model).
EditSettings(form) ==
    /\ formSettings # form
    /\ formSettings' = form
    /\ UNCHANGED <<storageProvider, storedSettings, validationErrors, isSaving,
                   feedbackMessage, feedbackIsError, settingsPc, setItemArg, lastSave,
                   timers, settingsFrame>>

\* The form is submitted: saveSettings up to its await of setItem.  The
\* submit button is disabled while isSaving.
SaveSettings ==
    /\ ~isSaving
    /\ LET v == ValidateSettings(formSettings)
           message == IF storageProvider = "none"
                      THEN <<"Critical Error: Storage provider not available. Cannot save settings.">>
                      ELSE IF ~v.isValid THEN <<"Please correct the errors above.">>
                      ELSE <<"Saving settings...">>
           saves == storageProvider # "none" /\ v.isValid
       IN /\ validationErrors' = IF storageProvider = "none" THEN validationErrors
                                 ELSE v.errors
          /\ feedbackMessage' = message
          /\ feedbackIsError' = ~saves
          /\ isSaving' = saves
          /\ settingsPc' = IF saves THEN "setItem" ELSE settingsPc
          /\ setItemArg' = IF saves THEN formSettings ELSE setItemArg
          /\ lastSave' = [done |-> TRUE, form |-> formSettings, setItem |-> saves,
                          message |-> message, isError |-> ~saves]
    /\ UNCHANGED <<storageProvider, storedSettings, formSettings, timers, settingsFrame>>

\* saveSettings: setItem settles.
SetItemSettles ==
    /\ settingsPc = "setItem"
    /\ \/ /\ storedSettings' = [present |-> TRUE, serverUrl |-> setItemArg.serverUrl,
                                remotePath |-> setItemArg.remotePath]
          /\ feedbackMessage' = <<"Settings saved successfully!">>
          /\ timers' = timers \cup {Timer({<<"Settings saved successfully!">>})}
          /\ UNCHANGED feedbackIsError
       \/ \E e \in StorageErrors :
          /\ feedbackMessage' = <<"Failed to save settings: ">>
                                  \o MessageOr(e, <<"An unknown error occurred">>)
                                  \o <<". Please try again.">>
          /\ feedbackIsError' = TRUE
          /\ UNCHANGED <<storedSettings, timers>>
    /\ isSaving' = FALSE
    /\ settingsPc' = "idle"
    /\ UNCHANGED <<storageProvider, formSettings, validationErrors, setItemArg, lastSave,
                   settingsFrame>>

\* A setTimeout callback of the component runs.
SettingsTimerFires(t) ==
    /\ t \in timers
    /\ timers' = timers \ {t}
    /\ feedbackMessage' = IF feedbackMessage \in t.clears THEN <<>> ELSE feedbackMessage
    /\ UNCHANGED <<storageProvider, storedSettings, formSettings, validationErrors, isSaving,
                   feedbackIsError, settingsPc, setItemArg, lastSave, settingsFrame>>

NextSettings ==
    \/ SettingsCreateDefaultSettles
    \/ SettingsGetItemSettles
    \/ \E form \in Forms : EditSettings(form)
    \/ SaveSettings
    \/ SetItemSettles
    \/ \E t \in timers : SettingsTimerFires(t)

SpecSettings == InitSettings /\ [][NextSettings]_vars

(***************************************************************************)
(* WebDAVActions.vue: the buttons that run a backup or a restore.  Each    *)
(* click handler in flight is an entry of procs: op tells whether it is    *)
(* performBackup or confirmRestore, pc the call it awaits.  The service is *)
(* the BackupService of backup.ts: a call of it settles with one of the    *)
(* outcomes the orchestrator's code produces.                              *)
(***************************************************************************)
\* Values the client library rejects with during an upload and a download.
BackupClientErrors ==
    {RawError(<<"Request failed">>, "string", st) : st \in {401, 507}}
    \cup {RawError(<<"getaddrinfo ", "ENOTFOUND", " test-server.com">>, "string", 0)}
RestoreClientErrors == {RawError(<<"Request failed">>, "string", st) : st \in {400, 403, 404}}

\* How backupService.backupToWebDAV(s) and restoreFromWebDAV(s) settle.
BackupOutcomes(s) ==
    {BackupAfterWrite(s, TRUE, Nothing)}
    \cup {BackupAfterWrite(s, FALSE, e) : e \in BackupClientErrors}
    \cup {Throw(ExportFailure(RawError(<<"Storage failed">>, "string", 0)), <<>>)}
    \cup {BackupAfterExport(s, EmptyObj, cc) : cc \in CreateClientErrors}
RestoreOutcomes(s) ==
    {RestoreAfterImport(s, TRUE, Nothing)}
    \cup {RestoreAfterDownloadFailed(s, e) : e \in RestoreClientErrors}
    \cup {RestoreAfterClear(EmptyObj, FALSE, RawError(<<"Storage failed">>, "string", 0))}
    \cup {RestoreBegin(s, cc) : cc \in CreateClientErrors}

\* mapErrorToUserMessage(error): instanceof follows the class hierarchies of
\* the two errors.ts.
MapErrorToUserMessage(error) ==
    CASE error.name = "WebDAVSettingsMissingError" ->
              <<"WebDAV settings are missing. Please configure them first.">>
      [] error.name = "WebDAVAuthenticationError" ->
              <<"WebDAV Authentication Failed: ">> \o MessageText(error)
                \o <<" Please check your credentials and server URL.">>
      [] error.name = "WebDAVConnectionError" ->
              <<"WebDAV Connection Error: ">> \o MessageText(error)
                \o <<" Ensure the server URL is correct and the server is accessible.">>
      [] error.name = "WebDAVFileNotFoundError" ->
              <<"WebDAV File Not Found: ">> \o MessageText(error)
                \o <<" Ensure the remote path is correct and the file exists for restore.">>
      [] error.name = "WebDAVForbiddenError" ->
              <<"WebDAV Access Forbidden: ">> \o MessageText(error)
                \o <<" Check permissions for the specified path on the server.">>
      [] error.name = "WebDAVInsufficientStorageError" ->
              <<"WebDAV Insufficient Storage: ">> \o MessageText(error)
                \o <<" There may not be enough space on the server.">>
      [] error.name = "WebDAVInvalidPathError" ->
              <<"WebDAV Invalid Path: ">> \o MessageText(error)
                \o <<" The specified remote path is not valid.">>
      [] error.name \in {"BackupConfigurationError", "RestoreConfigurationError"} ->
              <<"Configuration Error: ">> \o MessageText(error)
      [] error.name \in {"BackupStorageProviderError", "RestoreStorageProviderError"} ->
              <<"Storage Provider Error: ">> \o MessageText(error)
      [] IsWebDAVError(error) ->
              <<"A WebDAV operational error occurred: ">> \o MessageText(error)
      [] error.name \in {"BackupError", "RestoreError"} ->
              <<"Operation failed: ">> \o MessageText(error)
      [] OTHER ->
              <<"An unexpected error occurred: ">> \o MessageOr(error, <<"Unknown error">>)
                \o <<". Check console for details.">>

\* Variant: any stored object counts as settings.
SettingsConfigured_AnyObject(item) == item.present

\* getWebDAVSettings: whether the item getItem resolved with is returned
\* as settings (`!settings || !settings.serverUrl` is false).
SettingsConfigured(item) == item.present /\ item.serverUrl # <<>>

\* isActionInProgress
IsActionInProgress == backupState.inProgress \/ restoreState.inProgress

\* setFeedback(message, isError, duration): every pending timer has now been
\* followed by a later call.
SetFeedback(message, isError, duration) ==
    /\ actionFeedback' = [message |-> message, isError |-> isError]
    /\ timers' = {[t EXCEPT !.superseded = TRUE] : t \in timers}
                 \cup (IF duration > 0 THEN {Timer({message})} ELSE {})

\* The flags and the feedback after onMounted found no usable provider.
Disabled(message) ==
    /\ SetFeedback(message, TRUE, 0)
    /\ backupState' = [backupState EXCEPT !.inProgress = TRUE]
    /\ restoreState' = [restoreState EXCEPT !.inProgress = TRUE]

\* The click handlers that can be in flight together, and the one a click
\* starts.
Handlers == {"a", "b"}
HasIdleHandler == \E p \in Handlers : procs[p].pc = "idle"
NewHandler == CHOOSE p \in Handlers : procs[p].pc = "idle"

\* The variables of the other component and of the core.
actionsFrame ==
    <<store, remote, op, pc, settings, jsonData, data, outcome, log, store0, calls,
      uploaded, probe, answer, webdavServiceInstance, storedSettings, formSettings,
      validationErrors, isSaving, feedbackMessage, feedbackIsError, settingsPc,
      setItemArg, lastSave>>

InitActions ==
    /\ CoreIdle
    /\ storageProvider = "none"
    /\ storedSettings \in StoredItems
    /\ formSettings = EmptyForm
    /\ validationErrors = EmptyForm
    /\ isSaving = FALSE
    /\ feedbackMessage = <<>>
    /\ feedbackIsError = FALSE
    /\ settingsPc = "createDefault"
    /\ setItemArg = EmptyForm
    /\ lastSave = NoSave
    /\ mountPc = "createDefault"
    /\ backupService = "none"
    /\ backupState = [inProgress |-> FALSE, statusText |-> "Backup to WebDAV"]
    /\ restoreState = [inProgress |-> FALSE, statusText |-> "Restore from WebDAV"]
    /\ actionFeedback = [message |-> <<>>, isError |-> FALSE]
    /\ showRestoreConfirmation = FALSE
    /\ timers = {}
    /\ confirmedSinceOpen = FALSE
    /\ lastSettled = NoSettled

\* onMounted: StorageFactory.createDefault() settles.
ActionsCreateDefaultSettles ==
    /\ lastSettled' = NoSettled
    /\ mountPc = "createDefault"
    /\ mountPc' = "done"
    /\ \/ /\ storageProvider' = "ready"
          /\ backupService' = "ready"
          /\ UNCHANGED <<backupState, restoreState, actionFeedback, timers>>
       \/ /\ storageProvider' = "ready"
          /\ Disabled(<<"Storage provider is not fully compatible with backup/restore (missing required methods: exportAll, importAll, or clearAll). Backup/Restore disabled.">>)
          /\ UNCHANGED backupService
       \/ /\ Disabled(<<"Critical Error: Storage provider not available. Backup/Restore disabled.">>)
          /\ UNCHANGED <<storageProvider, backupService>>
       \/ \E e \in StorageErrors :
          /\ Disabled(<<"Critical Error initializing services: ">>
                        \o MessageOr(e, <<"Unknown error">>)
                        \o <<". Backup/Restore disabled.">>)
          /\ UNCHANGED <<storageProvider, backupService>>
    /\ UNCHANGED <<showRestoreConfirmation, confirmedSinceOpen, procs,
                   actionsFrame>>

\* A click on "Backup to WebDAV": performBackup up to the await of getItem
\* in getWebDAVSettings.  The button is disabled while isActionInProgress.
PerformBackup ==
    /\ lastSettled' = NoSettled
    /\ ~IsActionInProgress
    /\ HasIdleHandler
    /\ IF backupService = "none"
       THEN /\ SetFeedback(<<"Backup service not initialized. Cannot perform backup.">>,
                           TRUE, 5000)
            /\ UNCHANGED procs
       ELSE /\ procs' = [procs EXCEPT ![NewHandler] = [@ EXCEPT !.op = "backup",
                                                                !.pc = "getItem"]]
            /\ UNCHANGED <<actionFeedback, timers>>
    /\ UNCHANGED <<storageProvider, mountPc, backupService, backupState, restoreState,
                   showRestoreConfirmation, confirmedSinceOpen, actionsFrame>>

\* getItem of handler p's getWebDAVSettings settles; with settings the
\* handler goes on to its call of the service.
GetItemSettles(p) ==
    /\ lastSettled' = NoSettled
    /\ procs[p].pc = "getItem"
    /\ \/ \E e \in StorageErrors :
          /\ SetFeedback(<<"Error loading WebDAV settings: ">>
                           \o MessageOr(e, <<"Unknown error">>) \o <<".">>, TRUE, 0)
          /\ procs' = [procs EXCEPT ![p] = NotStarted]
          /\ UNCHANGED <<backupState, restoreState>>
       \/ /\ ~SettingsConfigured(storedSettings)
          /\ SetFeedback(<<"WebDAV settings not configured. Please go to \"WebDAV Configuration\" and save your settings first.">>,
                         TRUE, 5000)
          /\ procs' = [procs EXCEPT ![p] = NotStarted]
          /\ UNCHANGED <<backupState, restoreState>>
       \/ /\ SettingsConfigured(storedSettings)
          /\ procs[p].op = "backup"
          /\ backupState' = [inProgress |-> TRUE, statusText |-> "Backing up..."]
          /\ SetFeedback(<<"Starting backup...">>, FALSE, 0)
          /\ procs' = [procs EXCEPT ![p].pc = "backupToWebDAV"]
          /\ UNCHANGED restoreState
       \/ /\ SettingsConfigured(storedSettings)
          /\ procs[p].op = "restore"
          /\ restoreState' = [inProgress |-> TRUE, statusText |-> "Restoring..."]
          /\ SetFeedback(<<"Starting restore...">>, FALSE, 0)
          /\ procs' = [procs EXCEPT ![p].pc = "restoreFromWebDAV"]
          /\ UNCHANGED backupState
    /\ UNCHANGED <<storageProvider, mountPc, backupService, showRestoreConfirmation,
                   confirmedSinceOpen, actionsFrame>>

\* The feedback a handler sets for what the service call settled with.
ResultFeedback(r, fallback) ==
    IF r.kind = "returned"
    THEN [message |-> IF r.value.message = <<>> THEN fallback ELSE r.value.message,
          isError |-> FALSE]
    ELSE [message |-> MapErrorToUserMessage(r.value), isError |-> TRUE]

\* backupService.backupToWebDAV of handler p settles.
BackupSettles(p) ==
    /\ procs[p].pc = "backupToWebDAV"
    /\ \E r \in BackupOutcomes(storedSettings) :
          LET f == ResultFeedback(r, <<"Backup successful!">>)
          IN /\ SetFeedback(f.message, f.isError, IF r.kind = "returned" THEN 5000 ELSE 0)
             /\ lastSettled' = [fn |-> "backupToWebDAV",
                                outcome |-> [kind |-> r.kind, value |-> r.value],
                                message |-> f.message, isError |-> f.isError]
    /\ backupState' = [inProgress |-> FALSE, statusText |-> "Backup to WebDAV"]
    /\ procs' = [procs EXCEPT ![p] = NotStarted]
    /\ UNCHANGED <<storageProvider, mountPc, backupService, restoreState,
                   showRestoreConfirmation, confirmedSinceOpen, actionsFrame>>

\* A click on "Restore from WebDAV": initiateRestore.
InitiateRestore ==
    /\ lastSettled' = NoSettled
    /\ ~IsActionInProgress
    /\ IF backupService = "none"
       THEN /\ SetFeedback(<<"Restore service not initialized. Cannot perform restore.">>,
                           TRUE, 5000)
            /\ UNCHANGED <<showRestoreConfirmation, confirmedSinceOpen>>
       ELSE /\ SetFeedback(<<>>, FALSE, 0)
            /\ showRestoreConfirmation' = TRUE
            /\ confirmedSinceOpen' = FALSE
    /\ UNCHANGED <<storageProvider, mountPc, backupService, backupState, restoreState,
                   procs, actionsFrame>>

\* A click on "Cancel" in the confirmation dialog: cancelRestore.  The
\* dialog's buttons exist while showRestoreConfirmation and are disabled
\* while restoreState.inProgress.
CancelRestore ==
    /\ lastSettled' = NoSettled
    /\ showRestoreConfirmation /\ ~restoreState.inProgress
    /\ showRestoreConfirmation' = FALSE
    /\ SetFeedback(<<"Restore cancelled.">>, FALSE, 3000)
    /\ UNCHANGED <<storageProvider, mountPc, backupService, backupState, restoreState,
                   confirmedSinceOpen, procs, actionsFrame>>

\* A click on "Yes, Restore Data": confirmRestore up to the await of
\* getItem in getWebDAVSettings.
ConfirmRestore ==
    /\ lastSettled' = NoSettled
    /\ showRestoreConfirmation /\ ~restoreState.inProgress
    /\ HasIdleHandler
    /\ showRestoreConfirmation' = FALSE
    /\ confirmedSinceOpen' = TRUE
    /\ IF backupService = "none"
       THEN /\ SetFeedback(<<"Restore service not initialized. Cannot perform restore.">>,
                           TRUE, 5000)
            /\ UNCHANGED procs
       ELSE /\ procs' = [procs EXCEPT ![NewHandler] = [@ EXCEPT !.op = "restore",
                                                                !.pc = "getItem"]]
            /\ UNCHANGED <<actionFeedback, timers>>
    /\ UNCHANGED <<storageProvider, mountPc, backupService, backupState, restoreState,
                   actionsFrame>>

\* backupService.restoreFromWebDAV of handler p settles.
RestoreSettles(p) ==
    /\ procs[p].pc = "restoreFromWebDAV"
    /\ \E r \in RestoreOutcomes(storedSettings) :
          LET f == ResultFeedback(r, <<"Restore successful! Application data has been updated.">>)
          IN /\ SetFeedback(f.message, f.isError, IF r.kind = "returned" THEN 7000 ELSE 0)
             /\ lastSettled' = [fn |-> "restoreFromWebDAV",
                                outcome |-> [kind |-> r.kind, value |-> r.value],
                                message |-> f.message, isError |-> f.isError]
    /\ restoreState' = [inProgress |-> FALSE, statusText |-> "Restore from WebDAV"]
    /\ procs' = [procs EXCEPT ![p] = NotStarted]
    /\ UNCHANGED <<storageProvider, mountPc, backupService, backupState,
                   showRestoreConfirmation, confirmedSinceOpen, actionsFrame>>

\* A setTimeout callback of setFeedback runs.
ActionsTimerFires(t) ==
    /\ lastSettled' = NoSettled
    /\ t \in timers
    /\ timers' = timers \ {t}
    /\ actionFeedback' = IF actionFeedback.message \in t.clears
                         THEN [actionFeedback EXCEPT !.message = <<>>]
                         ELSE actionFeedback
    /\ UNCHANGED <<storageProvider, mountPc, backupService, backupState, restoreState,
                   showRestoreConfirmation, confirmedSinceOpen, procs,
                   actionsFrame>>

NextActions ==
    \/ ActionsCreateDefaultSettles
    \/ PerformBackup
    \/ InitiateRestore
    \/ CancelRestore
    \/ ConfirmRestore
    \/ \E p \in Handlers : GetItemSettles(p)
    \/ \E p \in Handlers : BackupSettles(p)
    \/ \E p \in Handlers : RestoreSettles(p)
    \/ \E t \in timers : ActionsTimerFires(t)

SpecActions == InitActions /\ [][NextActions]_vars

(***************************************************************************)
(* Reading the history of an invocation.                                   *)
(***************************************************************************)
Events(ev, fn) == {i \in DOMAIN log : log[i].ev = ev /\ log[i].fn = fn}
Called(fn) == Events("call", fn) # {}
Succeeded(fn) == Events("ok", fn) # {}
Failed(fn) == Events("fail", fn) # {}

Threw == pc = "done" /\ outcome.kind = "threw"
Returned == pc = "done" /\ outcome.kind = "returned"
ThrewNamed(name) == Threw /\ outcome.value.name = name

\* The calls restoreFromWebDAV makes, in the order the history records them.
RestoreSteps == <<"downloadFile", "JSON.parse", "clearAll", "importAll">>
RestoreCallOrder ==
    LET idx == {i \in DOMAIN log : log[i].ev = "call"
                                    /\ \E k \in 1..4 : RestoreSteps[k] = log[i].fn}
    IN /\ Cardinality(idx) <= 4
       /\ \A i \in idx :
             log[i].fn = RestoreSteps[Cardinality({j \in idx : j <= i})]

(***************************************************************************)
(* Claims.                                                                 *)
(***************************************************************************)
\* C1: in every restoreFromWebDAV the calls occur in the order downloadFile,
\* JSON.parse, clearAll, importAll; clearAll is called only after the download
\* succeeded and its text parsed; importAll is called only after the clearAll
\* of the same invocation succeeded, and its argument is exactly the value
\* parsed from the downloaded text, which is the content of the remote file.
C1_RestoreOrder ==
    op = "restore" =>
        /\ RestoreCallOrder
        /\ \A i \in Events("call", "clearAll") :
              /\ \E j \in Events("ok", "downloadFile") : j < i
              /\ \E j \in Events("ok", "JSON.parse") : j < i
              /\ jsonData = remote[ResolveRemotePath(settings)].text
              /\ Parse(jsonData).ok
        /\ \A i \in Events("call", "importAll") :
              /\ \E j \in Events("ok", "clearAll") :
                    j < i /\ \E k \in Events("call", "clearAll") : k < j
              /\ log[i].arg = Parse(remote[ResolveRemotePath(settings)].text).val

C1_Witness ==
    /\ op = "restore" /\ Returned
    /\ Called("importAll") /\ Succeeded("importAll")
    /\ store # store0

\* C2: when the downloaded text does not parse as JSON, restoreFromWebDAV
\* throws a RestoreError whose message says the backup file might be
\* corrupted, calls neither clearAll nor importAll, and leaves the store as
\* it was.
C2_ParseFailure ==
    (op = "restore" /\ Succeeded("downloadFile") /\ ~Parse(jsonData).ok) =>
        /\ ThrewNamed("RestoreError")
        /\ Contains(outcome.value.message, <<". The backup file might be corrupted.">>)
        /\ ~Called("clearAll") /\ ~Called("importAll")
        /\ store = store0

C2_Witness ==
    /\ op = "restore" /\ Succeeded("downloadFile") /\ ~Parse(jsonData).ok
    /\ jsonData = <<"{", Quote("key"), ":">>
    /\ Threw

\* C3: when downloadFile fails, restoreFromWebDAV throws a RestoreError whose
\* originalError is the error downloadFile threw and whose message includes
\* that error's message, calls neither clearAll nor importAll, and leaves the
\* store as it was.
C3_DownloadFailure ==
    \A i \in Events("fail", "downloadFile") :
        /\ ThrewNamed("RestoreError")
        /\ outcome.value.originalError = log[i].arg
        /\ log[i].arg.message # <<>>
        /\ Contains(outcome.value.message, log[i].arg.message)
        /\ ~Called("clearAll") /\ ~Called("importAll")
        /\ store = store0

C3_Witness ==
    /\ op = "restore" /\ Threw
    /\ \E i \in Events("fail", "downloadFile") :
          log[i].arg.name = "WebDAVFileNotFoundError"

\* C4: when download and parse succeeded and clearAll fails,
\* restoreFromWebDAV never calls importAll and throws a
\* RestoreStorageProviderError that names clearAll as the failed operation.
C4_ClearAllFailure ==
    (op = "restore" /\ Failed("clearAll")) =>
        /\ Succeeded("downloadFile") /\ Succeeded("JSON.parse")
        /\ ThrewNamed("RestoreStorageProviderError")
        /\ Contains(outcome.value.message, <<"' error during ", "clearAll", ": ">>)
        /\ ~Contains(outcome.value.message, <<"importAll">>)
        /\ ~Called("importAll")

C4_Witness == op = "restore" /\ Failed("clearAll") /\ Threw

\* C5: when importAll fails after clearAll succeeded, restoreFromWebDAV
\* throws a RestoreStorageProviderError that names importAll, makes no
\* further call (the failure is the last event: no retry, no re-import of
\* the earlier data), and the store stays cleared.
C5_ImportAllFailure ==
    (op = "restore" /\ Failed("importAll")) =>
        /\ Succeeded("clearAll")
        /\ ThrewNamed("RestoreStorageProviderError")
        /\ Contains(outcome.value.message, <<"' error during ", "importAll", ": ">>)
        /\ Cardinality(Events("call", "importAll")) = 1
        /\ Cardinality(Events("call", "clearAll")) = 1
        /\ log[Len(log)].ev = "fail" /\ log[Len(log)].fn = "importAll"
        /\ store = ProviderClearAll(store0)

C5_Witness ==
    /\ op = "restore" /\ Failed("importAll") /\ Threw
    /\ store0 # EmptyObj /\ store = EmptyObj

\* C6: when the settings are absent or serverUrl is empty, backupToWebDAV and
\* restoreFromWebDAV throw WebDAVSettingsMissingError at once: no transport
\* is constructed, no collaborator is called, store and server are untouched.
C6_SettingsMissing ==
    (op \in {"backup", "restore"} /\ (~settings.present \/ settings.serverUrl = <<>>)) =>
        /\ ThrewNamed("WebDAVSettingsMissingError")
        /\ log = <<>>
        /\ store = store0

C6_Witness ==
    /\ op = "restore" /\ settings.present /\ settings.serverUrl = <<>>
    /\ settings.remotePath # <<>>
    /\ Threw

\* C7: every error that leaves backupToWebDAV or restoreFromWebDAV is a
\* WebDAVSettingsMissingError, BackupStorageProviderError,
\* RestoreStorageProviderError, BackupError or RestoreError, whichever step
\* failed, transport construction included.
C7_OnlyDomainErrors ==
    Threw =>
        outcome.value.name \in {"WebDAVSettingsMissingError", "BackupStorageProviderError",
                                "RestoreStorageProviderError", "BackupError",
                                "RestoreError"}

\* C8: when exportAll fails, backupToWebDAV throws a BackupStorageProviderError
\* that names the provider and exportAll, carries the provider's error and
\* its message, and neither constructs a transport nor calls uploadFile.
C8_ExportFailure ==
    \A i \in Events("fail", "exportAll") :
        /\ ThrewNamed("BackupStorageProviderError")
        /\ Contains(outcome.value.message,
                    <<ProviderName, "' error during ", "exportAll", ": ">>)
        /\ outcome.value.originalError = log[i].arg
        /\ (log[i].arg # Nothing /\ log[i].arg.msgKind = "string") =>
              /\ log[i].arg.message # <<>>
              /\ Contains(outcome.value.message, log[i].arg.message)
        /\ ~Called("createClient") /\ ~Called("uploadFile")

C8_Witness ==
    /\ op = "backup" /\ Threw
    /\ \E i \in Events("fail", "exportAll") :
          log[i].arg # Nothing /\ log[i].arg.message = <<"Storage failed">>

\* C9: when the exported snapshot cannot be serialized, backupToWebDAV throws
\* a plain BackupError 'Failed to serialize data for backup', which is no
\* BackupStorageProviderError and wraps no transport error, and uploadFile is
\* never called.
C9_SerializeFailure ==
    \A i \in Events("call", "JSON.stringify") :
        ~Stringify(log[i].arg).ok =>
            /\ ThrewNamed("BackupError")
            /\ Contains(outcome.value.message, <<"Failed to serialize data for backup: ">>)
            /\ ~IsWebDAVError(outcome.value.originalError)
            /\ ~Called("createClient") /\ ~Called("uploadFile")

C9_Witness ==
    /\ op = "backup" /\ Threw
    /\ \E i \in Events("call", "JSON.stringify") : log[i].arg = JCyclic

\* C10: when uploadFile fails with a taxonomy error, backupToWebDAV throws a
\* BackupError whose originalError is that same error and whose message
\* contains that error's message unchanged.
C10_UploadFailure ==
    \A i \in Events("fail", "uploadFile") :
        IsWebDAVError(log[i].arg) =>
            /\ ThrewNamed("BackupError")
            /\ outcome.value.originalError = log[i].arg
            /\ log[i].arg.message # <<>>
            /\ Contains(outcome.value.message,
                        <<"WebDAV operation failed during backup: ">> \o log[i].arg.message)

C10_Witness ==
    /\ op = "backup" /\ Threw
    /\ \E i \in Events("fail", "uploadFile") :
          log[i].arg.name = "WebDAVAuthenticationError"

\* The path the orchestrator is expected to hand to the transport.
ExpectedPath == IF settings.remotePath = <<>> THEN DefaultFileName ELSE settings.remotePath

\* C11: whenever exportAll and uploadFile both succeed, backupToWebDAV returns
\* success = true with a message that contains the resolved destination path
\* (remotePath if configured, otherwise the default file name); a restore
\* whose download, parse, clearAll and importAll all succeed returns
\* success = true with a message that contains the source path.
C11_SuccessMessage ==
    /\ (op = "backup" /\ Succeeded("exportAll") /\ Succeeded("uploadFile")) =>
          /\ Returned
          /\ outcome.value.success = TRUE
          /\ Contains(outcome.value.message, <<"Backup successful to ">>)
          /\ Contains(outcome.value.message, ExpectedPath)
    /\ (op = "restore" /\ Succeeded("downloadFile") /\ Succeeded("JSON.parse")
          /\ Succeeded("clearAll") /\ Succeeded("importAll")) =>
          /\ Returned
          /\ outcome.value.success = TRUE
          /\ Contains(outcome.value.message, <<"Restore successful from ">>)
          /\ Contains(outcome.value.message, ExpectedPath)

C11_Witness ==
    /\ op = "backup" /\ Returned
    /\ Succeeded("exportAll") /\ Succeeded("uploadFile")
    /\ settings.remotePath = <<>>
    /\ Contains(outcome.value.message, DefaultFileName)

RECURSIVE JsonExact(_)
JsonExact(v) ==
    CASE v[1] \in {"null", "number", "string"} -> TRUE
      [] v[1] = "object" -> \A i \in DOMAIN v[2] : JsonExact(v[2][i][2])
      [] OTHER -> FALSE

\* C13 as stated: for every snapshot S that exportAll returned to a
\* successful backup, a restore from the file that backup wrote calls
\* importAll with a value equal to S.
C13_RoundTripEverySnapshot ==
    op = "restore" =>
        \A i \in Events("call", "importAll") :
            uploaded[ExpectedPath].by => log[i].arg = uploaded[ExpectedPath].snapshot

\* C13, amended: for every snapshot S that JSON represents exactly (no
\* member with the value undefined, no NaN) and that exportAll returned to a
\* successful backup, a restore from the file that backup wrote calls
\* importAll with a value equal to S.
C13_RoundTrip ==
    op = "restore" =>
        \A i \in Events("call", "importAll") :
            (uploaded[ExpectedPath].by /\ JsonExact(uploaded[ExpectedPath].snapshot)) =>
                log[i].arg = uploaded[ExpectedPath].snapshot

C13_Witness ==
    /\ op = "restore" /\ Returned
    /\ uploaded[ExpectedPath].by
    /\ uploaded[ExpectedPath].snapshot =
          JObj(<< <<"a", JObj(<< <<"key", JStr("value")>> >>)>>, <<"key", JNull>> >>)
    /\ \E i \in Events("call", "importAll") : log[i].arg = uploaded[ExpectedPath].snapshot
    /\ store = uploaded[ExpectedPath].snapshot

C15_NoRetry ==
    \A fn \in {"exportAll", "clearAll", "importAll", "uploadFile", "downloadFile",
                "getStat", "createDirectory", "putFileContents"} :
        Cardinality(Events("call", fn)) <= 1

C15_Witness ==
    /\ op = "backup" /\ Threw
    /\ Failed("getStat") /\ Succeeded("createDirectory") /\ Failed("putFileContents")
    /\ Cardinality(Events("call", "putFileContents")) = 1

(***************************************************************************)
(* Claims about the pure functions (SpecPure).                             *)
(***************************************************************************)
\* handleError was applied to a raw failure (not an error of the taxonomy)
\* whose message is a string or absent.
ClassifiedRaw ==
    /\ probe.fn = "handleError" /\ answer.done
    /\ probe.error # Nothing
    /\ ~IsWebDAVError(probe.error)
    /\ probe.error.msgKind \in {"string", "undefined"}

\* The message of the probed error contains a network signature / the text
\* 'network request failed' in any letter case.
HasSignature == \E sig \in NetworkSignatures : Contains(probe.error.message, <<sig>>)
HasNetworkFailed == Contains(ToLower(probe.error.message), <<"network request failed">>)

\* Directories the transport knows to be directories: the parent
\* directories uploadFile derives from the file paths.
KnownDirectories == {ParentDir(p) : p \in FilePaths} \ {<<>>}

\* C16: constructing a BackupService with a provider that lacks any of
\* exportAll, importAll, clearAll fails with a BackupConfigurationError whose
\* message names the first missing operation in the order exportAll,
\* importAll, clearAll; a provider that has all three is accepted.
C16_ConstructorRejects ==
    (probe.fn = "constructor" /\ answer.done) =>
        LET missing == {"exportAll", "importAll", "clearAll"} \ probe.methods
            first == IF "exportAll" \in missing THEN "exportAll"
                     ELSE IF "importAll" \in missing THEN "importAll"
                     ELSE "clearAll"
        IN IF missing = {} THEN answer.value = Nothing
           ELSE /\ answer.value # Nothing
                /\ answer.value.name = "BackupConfigurationError"
                /\ Contains(answer.value.message, <<"' must implement ", first>>)

C16_Witness ==
    /\ probe.fn = "constructor" /\ answer.done
    /\ probe.methods = {"exportAll", "getItem"}
    /\ answer.value.name = "BackupConfigurationError"
    /\ Contains(answer.value.message, <<"importAll">>)

\* C17: a raw failure without a network signature in its message is
\* classified by its status, for every operation: 401 and 407 as
\* WebDAVAuthenticationError, 403 as WebDAVForbiddenError, 400 as
\* WebDAVInvalidPathError, 409 as a WebDAVFileError noting the conflict, 507
\* as WebDAVInsufficientStorageError, 429 as WebDAVRateLimitError, 404 as one
\* of the two not-found kinds.
C17_StatusTable ==
    (ClassifiedRaw /\ ~HasSignature /\ ~HasNetworkFailed) =>
        LET status == probe.error.status
            kind == answer.value.name
        IN /\ status \in {401, 407} => kind = "WebDAVAuthenticationError"
           /\ status = 403 => kind = "WebDAVForbiddenError"
           /\ status = 400 => kind = "WebDAVInvalidPathError"
           /\ status = 409 =>
                 kind = "WebDAVFileError" /\ Contains(answer.value.message, <<"Conflict: ">>)
           /\ status = 507 => kind = "WebDAVInsufficientStorageError"
           /\ status = 429 => kind = "WebDAVRateLimitError"
           /\ status = 404 =>
                 kind \in {"WebDAVFileNotFoundError", "WebDAVDirectoryNotFoundError"}

\* C18: a 404 yields WebDAVDirectoryNotFoundError exactly when the failed
\* operation is directory-targeted: the path ends in a separator, or the
\* operation is create directory or list directory, or it is a stat of a
\* path known to be a directory; in every other case it yields
\* WebDAVFileNotFoundError.
C18_DirectoryNotFound ==
    (ClassifiedRaw /\ ~HasSignature /\ ~HasNetworkFailed /\ probe.error.status = 404) =>
        LET directoryTargeted ==
                \/ EndsWith(probe.filePath, "/")
                \/ probe.operation \in {"create directory", "list directory"}
                \/ probe.operation = "stat" /\ probe.filePath \in KnownDirectories
        IN answer.value.name = IF directoryTargeted THEN "WebDAVDirectoryNotFoundError"
                               ELSE "WebDAVFileNotFoundError"

\* C19: the message decides before the status code: a raw failure whose
\* message contains ENOTFOUND, ECONNREFUSED, ETIMEDOUT or EHOSTUNREACH is
\* classified as WebDAVConnectionError, and one whose message contains
\* 'network request failed' (and none of those) as WebDAVNetworkError,
\* whatever status code it carries and whatever the operation.
C19_MessageBeforeStatus ==
    ClassifiedRaw =>
        /\ HasSignature =>
              /\ answer.value.name = "WebDAVConnectionError"
              /\ answer.value.originalError = probe.error
        /\ (HasNetworkFailed /\ ~HasSignature) =>
              /\ answer.value.name = "WebDAVNetworkError"
              /\ answer.value.originalError = probe.error

C19_Witness ==
    /\ ClassifiedRaw
    /\ probe.error.status = 404
    /\ Contains(probe.error.message, <<"ECONNREFUSED">>)
    /\ answer.value.name = "WebDAVConnectionError"

\* C20: classification never wraps twice: an error of the taxonomy is
\* returned as the identical value for every operation tag, also when it
\* carries a status code or a network signature in its message, and
\* classifying the result of a classification returns it unchanged.
C20_NoDoubleWrap ==
    (probe.fn = "handleError" /\ answer.done) =>
        /\ (probe.error # Nothing /\ IsWebDAVError(probe.error)) =>
              answer.value = probe.error
        /\ IsWebDAVError(answer.value) =>
              \A o \in Operations, p \in ProbePaths :
                  HandleError(answer.value, p, o, ServerUrl) = answer.value

C20_Witness ==
    /\ probe.fn = "handleError" /\ answer.done
    /\ probe.error # Nothing
    /\ probe.error.name = "WebDAVFileError"
    /\ Contains(probe.error.message, <<"ECONNREFUSED">>)
    /\ probe.operation = "read"
    /\ answer.value = probe.error

\* C21: when no status code of the table matches and the message has no
\* network signature, handleError yields the generic kind of the operation:
\* WebDAVUploadError for write, WebDAVDownloadError for read, and for delete,
\* stat, create directory and list directory a WebDAVFileError whose message
\* names the operation.  The raw failure is an error whose message is a
\* string or absent; its status is none or one that is not in the table.
C21_DefaultKind ==
    (ClassifiedRaw /\ probe.error.status \in {0, 500}
       /\ ~HasSignature /\ ~HasNetworkFailed) =>
        /\ answer.value.originalError = probe.error
        /\ answer.value.name =
              IF probe.operation = "write" THEN "WebDAVUploadError"
              ELSE IF probe.operation = "read" THEN "WebDAVDownloadError"
              ELSE "WebDAVFileError"
        /\ Contains(answer.value.message, <<"Failed to ", probe.operation>>)

C21_Witness ==
    /\ ClassifiedRaw
    /\ probe.error.status = 500 /\ probe.error.message = PlainMessage
    /\ probe.operation = "delete"
    /\ answer.value.name = "WebDAVFileError"

\* An operation of WebDAVService that makes one client call was called and
\* has settled.
ServiceCallDone == probe.fn \in SingleCallOperations /\ answer.done

\* C22: every failure that leaves downloadFile, pathExists,
\* createDirectoryRecursive or deleteFile is an error of the taxonomy, for
\* every value the client can reject with: an error with or without a
\* message, one whose message is not a string, or undefined.
C22_OnlyTaxonomyErrors ==
    (ServiceCallDone /\ answer.threw) => IsWebDAVError(answer.value)

\* C23: pathExists returns true when the stat succeeds; it returns false
\* exactly when the stat fails and the failure classifies as
\* WebDAVFileNotFoundError or WebDAVDirectoryNotFoundError; for every other
\* classified failure it throws that classified error.
C23_PathExists ==
    (probe.fn = "pathExists" /\ answer.done) =>
        LET classified == HandleError(answer.client.err, probe.filePath, "stat", ServerUrl)
            notFound == /\ ~answer.client.ok
                        /\ classified.name \in {"WebDAVFileNotFoundError",
                                                 "WebDAVDirectoryNotFoundError"}
        IN /\ answer.client.ok => (~answer.threw /\ answer.result = "true")
           /\ (~answer.threw /\ answer.result = "false") <=> notFound
           /\ (~answer.client.ok /\ ~notFound /\ IsWebDAVError(classified)) =>
                 (answer.threw /\ answer.value = classified)

C23_Witness ==
    /\ probe.fn = "pathExists" /\ answer.done
    /\ ~answer.client.ok
    /\ answer.client.err # Nothing /\ answer.client.err.status = 401
    /\ answer.threw /\ answer.value.name = "WebDAVAuthenticationError"

\* C28: new WebDAVService(options) given client options without a server
\* URL throws WebDAVInvalidPathError and creates no client; given options
\* with a URL it creates one client, for that URL; given a client handle it
\* holds that handle and creates no client.
C28_ServiceConstructor ==
    (probe.fn = "WebDAVService" /\ answer.done) =>
        LET o == probe.options
        IN /\ (~o.hasGetStat /\ o.remoteURL = <<>>) =>
                 /\ answer.threw
                 /\ answer.value.name = "WebDAVInvalidPathError"
                 /\ Contains(answer.value.message,
                             <<"Remote URL is not provided in WebDAVClientOptions.">>)
                 /\ answer.created = <<>>
           /\ (~o.hasGetStat /\ o.remoteURL # <<>>) =>
                 /\ ~answer.threw /\ answer.result = "created"
                 /\ answer.created = <<o.remoteURL>>
           /\ o.hasGetStat =>
                 /\ ~answer.threw /\ answer.result = "given"
                 /\ answer.created = <<>>

C28_Witness ==
    /\ probe.fn = "WebDAVService" /\ answer.done
    /\ probe.options.hasGetStat /\ probe.options.remoteURL = ServerUrl
    /\ answer.result = "given" /\ answer.created = <<>>

(***************************************************************************)
(* Claims about uploadFile, as backupToWebDAV runs it (Spec).              *)
(***************************************************************************)
\* The path and text the invocation handed to uploadFile.
UploadPath == log[CHOOSE i \in Events("call", "uploadFile") : TRUE].arg[1]
UploadText == log[CHOOSE i \in Events("call", "uploadFile") : TRUE].arg[2]

\* The parent segment of the upload path: what precedes its last separator.
UploadParent ==
    LET seps == {k \in DOMAIN UploadPath : UploadPath[k] = "/"}
    IN IF seps = {} THEN <<>>
       ELSE SubSeq(UploadPath, 1, (CHOOSE k \in seps : \A m \in seps : m <= k) - 1)

\* The stat of the parent failed, and how handleError classifies the
\* failure under operation stat.
StatFailure == log[CHOOSE i \in Events("fail", "getStat") : TRUE].arg
StatClassified == HandleError(StatFailure, UploadParent, "stat", ServiceRemoteURL)
NotFoundKinds == {"WebDAVFileNotFoundError", "WebDAVDirectoryNotFoundError"}

\* C24: uploadFile on a path with no parent segment (no separator, or only
\* a leading one) calls neither getStat nor createDirectory; the call that
\* follows is the write, and a successful write replaces the file.
C24_NoParentNoDirectoryStep ==
    \A i \in Events("call", "uploadFile") :
        UploadParent = <<>> =>
            /\ ~Called("getStat") /\ ~Called("createDirectory")
            /\ i < Len(log)
            /\ log[i + 1] = Call("putFileContents", <<UploadPath, UploadText>>)
            /\ Succeeded("putFileContents") => remote[UploadPath] = File(UploadText)

C24_Witness ==
    /\ op = "backup" /\ Returned
    /\ Called("uploadFile") /\ UploadPath = <<"/", "backup.json">>
    /\ store0 # EmptyObj
    /\ remote[UploadPath] = File(UploadText)

\* C25: when the stat of the parent path succeeds and reports a type other
\* than directory, uploadFile fails with a WebDAVFileError naming the
\* conflict ('exists but is not a directory') and calls neither
\* createDirectory nor putFileContents.
C25_NonDirectoryParent ==
    \A i \in Events("ok", "getStat") :
        log[i].arg.type # "directory" =>
            /\ ~Called("createDirectory") /\ ~Called("putFileContents")
            /\ \E j \in Events("fail", "uploadFile") :
                  /\ log[j].arg.name = "WebDAVFileError"
                  /\ Contains(log[j].arg.message, <<" exists but is not a directory.">>)

\* C26: when the stat of the parent path fails with a not-found
\* classification, uploadFile calls createDirectory(parent) exactly once,
\* before any write; if the creation fails, uploadFile fails with what
\* handleError makes of that failure under operation create directory and
\* putFileContents is never called; if it succeeds, the write follows.
C26_CreateDirectoryOnNotFound ==
    (Failed("getStat") /\ StatClassified.name \in NotFoundKinds) =>
        /\ Cardinality(Events("call", "createDirectory")) = 1
        /\ \A c \in Events("call", "createDirectory") :
              /\ log[c].arg = UploadParent
              /\ \A w \in Events("call", "putFileContents") : c < w
        /\ \A f \in Events("fail", "createDirectory") :
              /\ ~Called("putFileContents")
              /\ \E u \in Events("fail", "uploadFile") :
                    log[u].arg = HandleError(log[f].arg, UploadParent, "create directory",
                                             ServiceRemoteURL)
        /\ \A k \in Events("ok", "createDirectory") :
              /\ k < Len(log)
              /\ log[k + 1] = Call("putFileContents", <<UploadPath, UploadText>>)

C26_Witness ==
    /\ op = "backup" /\ Threw
    /\ Failed("getStat") /\ StatClassified.name = "WebDAVFileNotFoundError"
    /\ Failed("createDirectory") /\ ~Called("putFileContents")
    /\ \E u \in Events("fail", "uploadFile") : log[u].arg.name = "WebDAVAuthenticationError"

\* C27: when the stat of the parent path fails with a classification other
\* than not-found, uploadFile does not fail at that step and does not call
\* createDirectory; it attempts the write, and its outcome is the outcome of
\* the write: success, or what handleError makes of the write failure under
\* operation write.
C27_OtherStatFailureSwallowed ==
    (/\ Failed("getStat")
     /\ IsWebDAVError(StatClassified)
     /\ StatClassified.name \notin NotFoundKinds) =>
        /\ ~Called("createDirectory")
        /\ \A i \in Events("fail", "getStat") :
              /\ i < Len(log)
              /\ log[i + 1] = Call("putFileContents", <<UploadPath, UploadText>>)
        /\ Succeeded("putFileContents") => (Succeeded("uploadFile") /\ Returned)
        /\ Failed("uploadFile") <=> Failed("putFileContents")
        /\ \A w \in Events("fail", "putFileContents") :
              \E u \in Events("fail", "uploadFile") :
                  log[u].arg = HandleError(log[w].arg, UploadPath, "write", ServiceRemoteURL)

C27_Witness ==
    /\ op = "backup" /\ Returned
    /\ Failed("getStat") /\ StatClassified.name = "WebDAVAuthenticationError"
    /\ Succeeded("putFileContents")

BetweenClearAndImport(p) == procs[p].op = "restore" /\ procs[p].pc = "importAll"

\* C29: the core takes no lock around clearAll and importAll: while a
\* restore is between its clearAll and its importAll, the exportAll of a
\* concurrent backup and the clearAll and importAll of a concurrent restore
\* can run as soon as they are awaited, and so can a new invocation start.
C29_NoLock ==
    \A p \in Invocations : \A q \in Invocations \ {p} :
        BetweenClearAndImport(p) =>
            /\ procs[q].pc = "idle" =>
                  (ENABLED CBackupToWebDAV(q) /\ ENABLED CRestoreFromWebDAV(q))
            /\ procs[q].pc = "exportAll" => ENABLED CExportAllSettles(q)
            /\ procs[q].pc = "clearAll" => ENABLED CClearAllSettles(q)
            /\ procs[q].pc = "importAll" => ENABLED CImportAllSettles(q)

\* The interleavings of C29, both in one run: a backup whose exportAll ran
\* between a restore's clearAll and importAll has uploaded the cleared
\* store, and an importAll has run on a store that was not empty.
C29_Witness ==
    /\ \E b \in Invocations :
          /\ procs[b].op = "backup" /\ procs[b].outcome.kind = "returned"
          /\ procs[b].sawCleared
          /\ procs[b].jsonData = Stringify(EmptyObj).text
    /\ \E r \in Invocations :
          /\ procs[r].op = "restore" /\ procs[r].outcome.kind = "returned"
          /\ procs[r].importedOver \notin {JUndefined, EmptyObj}

(***************************************************************************)
(* Claims about the documented location of the backup file.                *)
(***************************************************************************)
\* Where the user documentation places the backup file: inside the
\* configured Remote Backup Path, or at the root of the server URL.
DocumentedPath ==
    IF settings.remotePath = <<>> THEN DefaultFileName
    ELSE settings.remotePath \o <<"/">> \o DefaultFileName

\* C31: the backup file on the server is always named
\* prompt_optimizer_backup.json: with a Remote Backup Path P configured,
\* backup writes to and restore reads from P/prompt_optimizer_backup.json,
\* and with the path left empty they use prompt_optimizer_backup.json at the
\* root of the server URL.
C31_AlwaysBackupFileName ==
    /\ \A i \in Events("call", "putFileContents") : log[i].arg[1] = DocumentedPath
    /\ \A i \in Events("call", "getFileContents") : log[i].arg = DocumentedPath

(***************************************************************************)
(* Claims about the settings form (SpecSettings).                          *)
(***************************************************************************)
\* Settings that are valid: the server URL is present, parses as an
\* absolute URL and has scheme http or https, and the remote path, if
\* present, neither starts nor ends with '/'.
SettingsValid(form) ==
    /\ form.serverUrl # <<>>
    /\ ParseURL(form.serverUrl).ok
    /\ ParseURL(form.serverUrl).protocol \in {"http:", "https:"}
    /\ form.remotePath # <<>> =>
          (form.remotePath[1] # "/" /\ form.remotePath[Len(form.remotePath)] # "/")

InService(p) == procs[p].pc \in {"backupToWebDAV", "restoreFromWebDAV"}

\* Handler p makes its call of the service in this step.
CallsService(p) == procs[p].pc = "getItem" /\ InService(p)'

\* Handler p's load of the settings ends the handler in this step.
EndsAtSettings(p) == procs[p].pc = "getItem" /\ procs'[p].pc = "idle"

SettingsUsable == storedSettings.present /\ storedSettings.serverUrl # <<>>

\* C32: restoreFromWebDAV is invoked only after the confirmation dialog was
\* opened by initiateRestore and then confirmed; cancelling the dialog
\* closes it without any call, and no sequence of user events reaches a
\* restore call without a confirm event after the most recent open.
C32_ConfirmBeforeRestore ==
    [][\A p \in Handlers :
          (CallsService(p) /\ procs[p].op = "restore") =>
              (confirmedSinceOpen /\ ~showRestoreConfirmation)]_vars

\* The kind the transport determined for the failure of the service call
\* that has just settled: the orchestrator keeps the transport's error as
\* originalError of the error it throws.
DeterminedKind ==
    IF lastSettled.outcome.kind # "threw" THEN "none"
    ELSE IF IsWebDAVError(lastSettled.outcome.value) THEN lastSettled.outcome.value.name
    ELSE lastSettled.outcome.value.originalError.name

\* How the message for each specific kind starts.
KindPrefix ==
    [WebDAVAuthenticationError |-> "WebDAV Authentication Failed: ",
     WebDAVConnectionError |-> "WebDAV Connection Error: ",
     WebDAVFileNotFoundError |-> "WebDAV File Not Found: ",
     WebDAVForbiddenError |-> "WebDAV Access Forbidden: ",
     WebDAVInsufficientStorageError |-> "WebDAV Insufficient Storage: ",
     WebDAVInvalidPathError |-> "WebDAV Invalid Path: "]

\* C34: when a backup or restore run through the BackupService fails
\* because the transport determined a specific kind (authentication,
\* connection, file-not-found, forbidden, insufficient-storage,
\* invalid-path), the message shown is the one specific to that kind, never
\* the generic 'Operation failed' or 'unexpected error' message.
C34_SpecificMessage ==
    DeterminedKind \in DOMAIN KindPrefix =>
        /\ lastSettled.isError
        /\ lastSettled.message[1] = KindPrefix[DeterminedKind]
        /\ actionFeedback.message = lastSettled.message

C36_FlagWhileInFlight ==
    /\ \A p \in Handlers :
          /\ procs[p].pc = "backupToWebDAV" => backupState.inProgress
          /\ procs[p].pc = "restoreFromWebDAV" => restoreState.inProgress
    /\ lastSettled.fn = "backupToWebDAV" => ~backupState.inProgress
    /\ lastSettled.fn = "restoreFromWebDAV" => ~restoreState.inProgress
    /\ lastSettled.fn # "none" =>
          /\ lastSettled.message # <<>>
          /\ actionFeedback = [message |-> lastSettled.message,
                               isError |-> lastSettled.isError]

\* C37: the component never has two service operations in flight at once:
\* at most one call among backupToWebDAV and restoreFromWebDAV is pending at
\* any moment.
C37_SingleFlight == Cardinality({p \in Handlers : InService(p)}) <= 1

\* C40: a feedback message set with an auto-clear duration is cleared by its
\* timer only if no later setFeedback call has replaced it: a timer started
\* by an earlier setFeedback never clears a message that was set by a later
\* call, including a later call with the same text.
C40_TimerClearsOwnMessage ==
    [][\A t \in timers :
          (ActionsTimerFires(t) /\ t.superseded) => actionFeedback' = actionFeedback]_vars

(***************************************************************************)
(* Claims about the orchestrator's use of the data provider (Spec).        *)
(***************************************************************************)
\* C38: backupToWebDAV never modifies the local store: on every path,
\* successful or failing, it invokes neither clearAll nor importAll, and the
\* only data-provider operation it performs is one exportAll;
\* restoreFromWebDAV in turn never invokes exportAll.
C38_BackupLeavesStore ==
    /\ op = "backup" =>
          /\ ~Called("clearAll") /\ ~Called("importAll")
          /\ Cardinality(Events("call", "exportAll")) <= 1
          /\ (Called("uploadFile") \/ Called("JSON.stringify")) =>
                Cardinality(Events("call", "exportAll")) = 1
          /\ store = store0
    /\ op = "restore" => ~Called("exportAll")

\* A backup has failed at the upload after its one exportAll, with the
\* store as it was.
C38_Witness ==
    /\ op = "backup" /\ Threw
    /\ Cardinality(Events("call", "exportAll")) = 1
    /\ Failed("uploadFile")
    /\ store = store0 /\ store # EmptyObj

\* C39: provided every data-provider and transport call eventually settles,
\* every invocation of backupToWebDAV, restoreFromWebDAV and uploadFile
\* eventually finishes, either returning or throwing; no path waits forever
\* or loops.
C39_Terminates == (pc \notin {"idle", "done"}) ~> (pc = "done" /\ (Returned \/ Threw))

\* A backup has finished after awaiting exportAll, getStat, createDirectory
\* and putFileContents.
C39_Witness ==
    /\ op = "backup" /\ pc = "done" /\ Returned
    /\ Succeeded("exportAll") /\ Failed("getStat") /\ Succeeded("createDirectory")
    /\ Succeeded("putFileContents")

====
